---- MODULE Spec2Model ----
(***************************************************************************)
(* Model of the HR task-oriented conversational agent: the dialogue FSM    *)
(* (src/dialogue/fsm.py), the dialogue manager that drives it              *)
(* (src/dialogue/dialogue_manager.py) and the agent's message loop         *)
(* (src/app.py).                                                           *)
(*                                                                         *)
(* FSM methods are operators from an FSMStateData record to the record     *)
(* after the call (with the return value where the method has one).  The   *)
(* collaborators (intent router, slot selector, slot extractor,            *)
(* normalizer, Slack execution) are inputs of the turn: every output they  *)
(* can produce is enumerated.                                              *)
(***************************************************************************)
EXTENDS Integers, Sequences, FiniteSets, TLC

\* state_data: the FSM's state of the conversation; result: the last call and
\* what it returned; in_flight: the chat requests of the session being served;
\* saved: the snapshot most recently handed to the conversation store.
VARIABLES state_data, result, in_flight, saved, blob, active_agents, chat_requests

vars == <<state_data, result, in_flight, saved, blob, active_agents, chat_requests>>

(***************************************************************************)
(* Values                                                                  *)
(***************************************************************************)

\* Python's None, for Optional[str] fields and results.
NONE == "None"

\* Cap on a slot's retry counter (the code has none); above MAX_RETRIES so
\* that calls after the exhausting one are explored.
MaxRetryCount == 4

MAX_RETRIES == 3

\* Raw values the slot extractor can return (verbatim spans), and the date
\* the normalizer proposes for "next monday".
Values == {"next monday", "john smith"}

Candidates == {"2025-01-13"}

\* The modelled part of the schema registry: the first slots of two tasks
\* that share the slot name employee_name.
TASK_SCHEMAS ==
    [request_time_off   |-> <<"employee_name", "start_date", "end_date">>,
     file_medical_claim |-> <<"employee_name", "incident_date">>]

Intents == DOMAIN TASK_SCHEMAS

get_slot_names(intent_name) == TASK_SCHEMAS[intent_name]

\* The questions of the modelled slots.
get_slot_questions(intent_name) ==
    IF intent_name = "request_time_off"
    THEN [employee_name |-> "What is your name?",
          start_date    |-> "When would you like to start your time off?",
          end_date      |-> "When would you like to return?"]
    ELSE [employee_name |-> "What is your name?",
          incident_date |-> "When did the medical incident occur?"]

Range(seq) == {seq[i] : i \in 1..Len(seq)}

SlotNames == UNION {Range(TASK_SCHEMAS[t]) : t \in Intents}

EmptyDict == [k \in {} |-> NONE]

\* d[k] = v, adding the key when absent (Python's d[k] = v).
DictSet(d, k, v) == [x \in DOMAIN d \cup {k} |-> IF x = k THEN v ELSE d[x]]

\* d.get(k, default)
DictGet(d, k, default) == IF k \in DOMAIN d THEN d[k] ELSE default

\* Optional[Dict]: None is distinct from the empty dict.
NoDict == [is_none |-> TRUE, entries |-> EmptyDict]

SomeDict(d) == [is_none |-> FALSE, entries |-> d]

\* A Python bool as it is reported.
Bool(b) == IF b THEN "True" ELSE "False"

\* Python truthiness of an Optional[Dict].
Truthy(p) == ~p.is_none /\ DOMAIN p.entries # {}

SlotValue(value, confirmed, retry_count) ==
    [value |-> value, confirmed |-> confirmed, retry_count |-> retry_count,
     normalized_value |-> NONE, needs_confirmation |-> FALSE]

FSMStateData ==
    [current_state |-> "INIT",
     active_intent |-> NONE,
     queued_intents |-> <<>>,
     slot_values |-> EmptyDict,
     current_slot_being_collected |-> NONE,
     slot_retry_counts |-> EmptyDict,
     pending_normalization |-> NoDict]

TaskStates == {"COLLECTING_SLOT", "CONFIRMING_NORMALIZATION",
               "READY_TO_EXECUTE", "EXECUTING_ACTION"}

(***************************************************************************)
(* FSM (src/dialogue/fsm.py)                                               *)
(***************************************************************************)

\* Mutant: a slot with a candidate is reported with the candidate.
get_filled_slots_normalized(st) ==
    [s \in {n \in DOMAIN st.slot_values : st.slot_values[n].confirmed}
        |-> IF st.slot_values[s].normalized_value # NONE
            THEN st.slot_values[s].normalized_value
            ELSE st.slot_values[s].value]

get_filled_slots(st) ==
    [s \in {n \in DOMAIN st.slot_values : st.slot_values[n].confirmed}
        |-> st.slot_values[s].value]

get_missing_slots(st, intent_name) ==
    IF intent_name = NONE THEN <<>>
    ELSE SelectSeq(get_slot_names(intent_name),
                   LAMBDA s : s \notin DOMAIN st.slot_values)

\* Mutant: the last missing slot is taken instead of the first.
get_next_missing_slot_last(st, intent_name) ==
    LET missing == get_missing_slots(st, intent_name)
    IN  IF missing = <<>> THEN NONE ELSE missing[Len(missing)]

get_next_missing_slot(st, intent_name) ==
    LET missing == get_missing_slots(st, intent_name)
    IN  IF missing = <<>> THEN NONE ELSE missing[1]

transition_to(st, new_state) == [st EXCEPT !.current_state = new_state]

\* Mutant: the name is queued without looking for it in the queue.
set_active_intent_requeuing(st, intent_name) ==
    IF st.current_state \in TaskStates
    THEN [st  |-> [st EXCEPT !.queued_intents = Append(@, intent_name)],
          ret |-> FALSE]
    ELSE [st  |-> transition_to(
                    [st EXCEPT !.active_intent = intent_name,
                               !.slot_values = EmptyDict,
                               !.slot_retry_counts = EmptyDict,
                               !.current_slot_being_collected = NONE,
                               !.pending_normalization = NoDict],
                    "COLLECTING_SLOT"),
          ret |-> TRUE]

\* Mutant: the slot being collected survives the start of a task.
set_active_intent_keeping_current_slot(st, intent_name) ==
    IF st.current_state \in TaskStates
    THEN [st  |-> IF \E i \in 1..Len(st.queued_intents) :
                        st.queued_intents[i] = intent_name
                  THEN st
                  ELSE [st EXCEPT !.queued_intents = Append(@, intent_name)],
          ret |-> FALSE]
    ELSE [st  |-> transition_to(
                    [st EXCEPT !.active_intent = intent_name,
                               !.slot_values = EmptyDict,
                               !.slot_retry_counts = EmptyDict,
                               !.pending_normalization = NoDict],
                    "COLLECTING_SLOT"),
          ret |-> TRUE]

set_active_intent(st, intent_name) ==
    IF st.current_state \in TaskStates
    THEN [st  |-> IF \E i \in 1..Len(st.queued_intents) :
                        st.queued_intents[i] = intent_name
                  THEN st
                  ELSE [st EXCEPT !.queued_intents = Append(@, intent_name)],
          ret |-> FALSE]
    ELSE [st  |-> transition_to(
                    [st EXCEPT !.active_intent = intent_name,
                               !.slot_values = EmptyDict,
                               !.slot_retry_counts = EmptyDict,
                               !.current_slot_being_collected = NONE,
                               !.pending_normalization = NoDict],
                    "COLLECTING_SLOT"),
          ret |-> TRUE]

set_general_chat(st) ==
    transition_to([st EXCEPT !.active_intent = NONE], "GENERAL_CHAT")

\* Mutant: the confirmed check is missing.
fill_slot_unguarded(st, slot_name, value, confirmed) ==
    [st  |-> [st EXCEPT !.slot_values =
                DictSet(@, slot_name,
                        SlotValue(value, confirmed,
                                  DictGet(st.slot_retry_counts, slot_name, 0)))],
     ret |-> TRUE]

fill_slot(st, slot_name, value, confirmed) ==
    IF slot_name \in DOMAIN st.slot_values /\ st.slot_values[slot_name].confirmed
    THEN [st |-> st, ret |-> FALSE]
    ELSE [st  |-> [st EXCEPT !.slot_values =
                     DictSet(@, slot_name,
                             SlotValue(value, confirmed,
                                       DictGet(st.slot_retry_counts, slot_name, 0)))],
          ret |-> TRUE]

confirm_slot(st, slot_name) ==
    IF slot_name \notin DOMAIN st.slot_values
    THEN [st |-> st, ret |-> FALSE]
    ELSE [st  |-> [st EXCEPT !.slot_values[slot_name].confirmed = TRUE,
                             !.slot_values[slot_name].needs_confirmation = FALSE,
                             !.pending_normalization = NoDict],
          ret |-> TRUE]

reject_normalization(st, slot_name) ==
    LET cleared ==
          IF slot_name \in DOMAIN st.slot_values
          THEN [st EXCEPT !.slot_values[slot_name].normalized_value = NONE,
                          !.slot_values[slot_name].needs_confirmation = FALSE]
          ELSE st
    IN  [cleared EXCEPT !.pending_normalization = NoDict]

\* Mutant: the comparison with MAX_RETRIES is off by one.
increment_retry_lenient(st, slot_name) ==
    LET current_retries == DictGet(st.slot_retry_counts, slot_name, 0) + 1
        counted == [st EXCEPT !.slot_retry_counts =
                                 DictSet(@, slot_name, current_retries)]
    IN  [st  |-> IF slot_name \in DOMAIN st.slot_values
                 THEN [counted EXCEPT
                         !.slot_values[slot_name].retry_count = current_retries]
                 ELSE counted,
         ret |-> current_retries <= MAX_RETRIES]

increment_retry(st, slot_name) ==
    LET current_retries == DictGet(st.slot_retry_counts, slot_name, 0) + 1
        counted == [st EXCEPT !.slot_retry_counts =
                                 DictSet(@, slot_name, current_retries)]
    IN  [st  |-> IF slot_name \in DOMAIN st.slot_values
                 THEN [counted EXCEPT
                         !.slot_values[slot_name].retry_count = current_retries]
                 ELSE counted,
         ret |-> current_retries < MAX_RETRIES]

set_current_slot(st, slot_name) ==
    [st EXCEPT !.current_slot_being_collected = slot_name]

\* Mutant: the proposal is written into the slot's value.
set_pending_normalization_applying(st, slot_name, proposed_value) ==
    LET base == IF st.pending_normalization.is_none
                THEN EmptyDict ELSE st.pending_normalization.entries
        pend == [st EXCEPT !.pending_normalization =
                              SomeDict(DictSet(base, slot_name, proposed_value))]
    IN  IF slot_name \in DOMAIN st.slot_values
        THEN [pend EXCEPT !.slot_values[slot_name].value = proposed_value,
                          !.slot_values[slot_name].normalized_value = proposed_value,
                          !.slot_values[slot_name].needs_confirmation = TRUE]
        ELSE pend

set_pending_normalization(st, slot_name, proposed_value) ==
    LET base == IF st.pending_normalization.is_none
                THEN EmptyDict ELSE st.pending_normalization.entries
        pend == [st EXCEPT !.pending_normalization =
                              SomeDict(DictSet(base, slot_name, proposed_value))]
    IN  IF slot_name \in DOMAIN st.slot_values
        THEN [pend EXCEPT !.slot_values[slot_name].normalized_value = proposed_value,
                          !.slot_values[slot_name].needs_confirmation = TRUE]
        ELSE pend

\* Mutant: a record suffices, confirmed or not.
check_all_slots_filled_unconfirmed(st, intent_name) ==
    /\ intent_name # NONE
    /\ \A s \in Range(get_slot_names(intent_name)) : s \in DOMAIN st.slot_values

check_all_slots_filled(st, intent_name) ==
    IF intent_name = NONE THEN FALSE
    ELSE \A s \in Range(get_slot_names(intent_name)) :
            s \in DOMAIN st.slot_values /\ st.slot_values[s].confirmed

process_slot_collection(st, slot_name, extracted_value) ==
    IF extracted_value = NONE
    THEN LET r == increment_retry(st, slot_name)
         IN  [st |-> r.st, action |-> IF r.ret THEN "retry" ELSE "max_retries"]
    ELSE [st |-> fill_slot(st, slot_name, extracted_value, FALSE).st,
          action |-> "fill"]

\* Mutant: the task queued last is taken from the queue.
advance_state_lifo(st) ==
    LET current == st.current_state
    IN  CASE current = "COLLECTING_SLOT" ->
               IF st.active_intent # NONE
               THEN IF check_all_slots_filled(st, st.active_intent)
                    THEN transition_to(st, "READY_TO_EXECUTE")
                    ELSE IF Truthy(st.pending_normalization)
                         THEN transition_to(st, "CONFIRMING_NORMALIZATION")
                         ELSE st
               ELSE st
          [] current = "CONFIRMING_NORMALIZATION" ->
               IF st.active_intent # NONE
               THEN IF check_all_slots_filled(st, st.active_intent)
                    THEN transition_to(st, "READY_TO_EXECUTE")
                    ELSE transition_to(st, "COLLECTING_SLOT")
               ELSE st
          [] current = "EXECUTING_ACTION" -> transition_to(st, "COMPLETED")
          [] current = "COMPLETED" ->
               IF st.queued_intents # <<>>
               THEN set_active_intent(
                      [st EXCEPT !.queued_intents = SubSeq(@, 1, Len(@) - 1)],
                      st.queued_intents[Len(st.queued_intents)]).st
               ELSE [transition_to(st, "INIT") EXCEPT !.active_intent = NONE]
          [] OTHER -> st
\* Mutant: a pending normalization is looked at before the slots.
advance_state_pending_first(st) ==
    LET current == st.current_state
    IN  CASE current = "COLLECTING_SLOT" ->
               IF st.active_intent # NONE
               THEN IF Truthy(st.pending_normalization)
                    THEN transition_to(st, "CONFIRMING_NORMALIZATION")
                    ELSE IF check_all_slots_filled(st, st.active_intent)
                         THEN transition_to(st, "READY_TO_EXECUTE")
                         ELSE st
               ELSE st
          [] current = "CONFIRMING_NORMALIZATION" ->
               IF st.active_intent # NONE
               THEN IF check_all_slots_filled(st, st.active_intent)
                    THEN transition_to(st, "READY_TO_EXECUTE")
                    ELSE transition_to(st, "COLLECTING_SLOT")
               ELSE st
          [] current = "EXECUTING_ACTION" -> transition_to(st, "COMPLETED")
          [] current = "COMPLETED" ->
               IF st.queued_intents # <<>>
               THEN set_active_intent(
                      [st EXCEPT !.queued_intents = Tail(@)],
                      Head(st.queued_intents)).st
               ELSE [transition_to(st, "INIT") EXCEPT !.active_intent = NONE]
          [] OTHER -> st
\* Mutant: completing the execution forgets the slot being collected.
advance_state_clearing_current_slot(st) ==
    LET current == st.current_state
    IN  CASE current = "COLLECTING_SLOT" ->
               IF st.active_intent # NONE
               THEN IF check_all_slots_filled(st, st.active_intent)
                    THEN transition_to(st, "READY_TO_EXECUTE")
                    ELSE IF Truthy(st.pending_normalization)
                         THEN transition_to(st, "CONFIRMING_NORMALIZATION")
                         ELSE st
               ELSE st
          [] current = "CONFIRMING_NORMALIZATION" ->
               IF st.active_intent # NONE
               THEN IF check_all_slots_filled(st, st.active_intent)
                    THEN transition_to(st, "READY_TO_EXECUTE")
                    ELSE transition_to(st, "COLLECTING_SLOT")
               ELSE st
          [] current = "EXECUTING_ACTION" ->
               set_current_slot(transition_to(st, "COMPLETED"), NONE)
          [] current = "COMPLETED" ->
               IF st.queued_intents # <<>>
               THEN set_active_intent(
                      [st EXCEPT !.queued_intents = Tail(@)],
                      Head(st.queued_intents)).st
               ELSE [transition_to(st, "INIT") EXCEPT !.active_intent = NONE]
          [] OTHER -> st

advance_state(st) ==
    LET current == st.current_state
    IN  CASE current = "COLLECTING_SLOT" ->
               IF st.active_intent # NONE
               THEN IF check_all_slots_filled(st, st.active_intent)
                    THEN transition_to(st, "READY_TO_EXECUTE")
                    ELSE IF Truthy(st.pending_normalization)
                         THEN transition_to(st, "CONFIRMING_NORMALIZATION")
                         ELSE st
               ELSE st
          [] current = "CONFIRMING_NORMALIZATION" ->
               IF st.active_intent # NONE
               THEN IF check_all_slots_filled(st, st.active_intent)
                    THEN transition_to(st, "READY_TO_EXECUTE")
                    ELSE transition_to(st, "COLLECTING_SLOT")
               ELSE st
          [] current = "EXECUTING_ACTION" -> transition_to(st, "COMPLETED")
          [] current = "COMPLETED" ->
               IF st.queued_intents # <<>>
               THEN set_active_intent(
                      [st EXCEPT !.queued_intents = Tail(@)],
                      Head(st.queued_intents)).st
               ELSE [transition_to(st, "INIT") EXCEPT !.active_intent = NONE]
          [] OTHER -> st

\* Mutant: the phase is not looked at.
start_action_execution_unguarded(st) == transition_to(st, "EXECUTING_ACTION")

start_action_execution(st) ==
    IF st.current_state = "READY_TO_EXECUTE"
    THEN transition_to(st, "EXECUTING_ACTION")
    ELSE st

\* Mutant: the queue is not looked at on completion.
complete_action_without_dequeue(st) == transition_to(st, "COMPLETED")

complete_action(st) == advance_state(transition_to(st, "COMPLETED"))

terminate(st) == transition_to(st, "TERMINATED")

\* Mutant: the snapshot leaves out the slots' retry counts, which load as 0.
get_state_snapshot_without_retries(st) ==
    [current_state |-> st.current_state,
     active_intent |-> st.active_intent,
     queued_intents |-> st.queued_intents,
     slot_values |->
        [name \in DOMAIN st.slot_values |->
            [value |-> st.slot_values[name].value,
             confirmed |-> st.slot_values[name].confirmed,
             retry_count |-> 0,
             normalized_value |-> st.slot_values[name].normalized_value,
             needs_confirmation |-> st.slot_values[name].needs_confirmation]],
     current_slot_being_collected |-> st.current_slot_being_collected,
     slot_retry_counts |-> st.slot_retry_counts,
     pending_normalization |->
        IF Truthy(st.pending_normalization)
        THEN st.pending_normalization ELSE NoDict]

get_state_snapshot(st) ==
    [current_state |-> st.current_state,
     active_intent |-> st.active_intent,
     queued_intents |-> st.queued_intents,
     slot_values |->
        [name \in DOMAIN st.slot_values |->
            [value |-> st.slot_values[name].value,
             confirmed |-> st.slot_values[name].confirmed,
             retry_count |-> st.slot_values[name].retry_count,
             normalized_value |-> st.slot_values[name].normalized_value,
             needs_confirmation |-> st.slot_values[name].needs_confirmation]],
     current_slot_being_collected |-> st.current_slot_being_collected,
     slot_retry_counts |-> st.slot_retry_counts,
     pending_normalization |->
        IF Truthy(st.pending_normalization)
        THEN st.pending_normalization ELSE NoDict]

load_state_snapshot(st, snapshot) ==
    [st EXCEPT
       !.current_state = snapshot.current_state,
       !.active_intent = snapshot.active_intent,
       !.queued_intents = snapshot.queued_intents,
       !.current_slot_being_collected = snapshot.current_slot_being_collected,
       !.slot_retry_counts = snapshot.slot_retry_counts,
       !.pending_normalization = snapshot.pending_normalization,
       !.slot_values =
          [name \in DOMAIN snapshot.slot_values |->
             [value |-> snapshot.slot_values[name].value,
              confirmed |-> snapshot.slot_values[name].confirmed,
              retry_count |-> snapshot.slot_values[name].retry_count,
              normalized_value |-> snapshot.slot_values[name].normalized_value,
              needs_confirmation |-> snapshot.slot_values[name].needs_confirmation]]]

(***************************************************************************)
(* Dialogue manager (src/dialogue/dialogue_manager.py)                     *)
(***************************************************************************)

\* Utterances of the user.  The last three are neither in a lexicon nor
\* contain a word of the execution-confirmation list.
Utterances == {"", "  ", "yes", "correct", "no", "john smith"}

\* Mutant: whitespace is not stripped.
Strip_nothing(u) == u

\* str.strip() on the modelled utterances.
Strip(u) == IF u = "  " THEN "" ELSE u

AffirmativeLexicon ==
    {"yes", "yeah", "yep", "sure", "ok", "okay", "confirm", "correct"}

NegativeLexicon == {"no", "nope", "nah", "incorrect", "wrong"}

\* any(conf in utterance_lower for conf in confirmations): of the modelled
\* utterances only "yes" contains one of yes, yeah, yep, sure, ok, okay,
\* proceed, go ahead, execute, submit.
is_execution_confirmation(u) == Strip(u) \in {"yes"}

\* A turn result: the action and the metadata entries 'slot', 'intent' (or
\* 'queued_intent'), 'question', 'proposed_value' and 'slots' that the
\* action carries.
TurnResult(action, slot, intent) ==
    [action |-> action, slot |-> slot, intent |-> intent, question |-> NONE,
     proposed_value |-> NONE, slots |-> EmptyDict, execution_result |-> NONE]

\* Mutant: the slot asked for is not recorded as the slot being collected.
start_slot_collection_without_current_slot(st) ==
    LET intent_name == st.active_intent
        next_slot == get_next_missing_slot(st, intent_name)
    IN  IF intent_name = NONE
        THEN [st |-> st, res |-> TurnResult("error", NONE, NONE)]
        ELSE IF next_slot = NONE
        THEN [st |-> advance_state(st),
              res |-> TurnResult("ready_to_execute", NONE, NONE)]
        ELSE [st |-> st,
              res |-> [TurnResult("ask_slot", next_slot, intent_name)
                         EXCEPT !.question = get_slot_questions(intent_name)[next_slot]]]

start_slot_collection(st) ==
    LET intent_name == st.active_intent
        next_slot == get_next_missing_slot(st, intent_name)
    IN  IF intent_name = NONE
        THEN [st |-> st, res |-> TurnResult("error", NONE, NONE)]
        ELSE IF next_slot = NONE
        THEN [st |-> advance_state(st),
              res |-> TurnResult("ready_to_execute", NONE, NONE)]
        ELSE [st |-> set_current_slot(st, next_slot),
              res |-> [TurnResult("ask_slot", next_slot, intent_name)
                         EXCEPT !.question = get_slot_questions(intent_name)[next_slot]]]

\* fill_slot, confirm_slot, advance_state, then ready_to_execute or the next
\* question (lines 213-226, 300-310).
fill_current_slot(st, intent_name, current_slot, value) ==
    LET filled == fill_slot(st, current_slot, value, FALSE).st
        confirmed == confirm_slot(filled, current_slot).st
        advanced == advance_state(confirmed)
    IN  IF check_all_slots_filled(advanced, intent_name)
        THEN [st |-> advanced,
              res |-> TurnResult("ready_to_execute", NONE, NONE)]
        ELSE start_slot_collection(advanced)

\* process_slot_collection(current_slot, None) and the branch on its result
\* (lines 231-254, 314-335).
retry_current_slot(st, intent_name, current_slot) ==
    LET retry_result == process_slot_collection(st, current_slot, NONE)
        skipped == set_current_slot(retry_result.st, NONE)
    IN  IF retry_result.action = "max_retries"
        THEN IF get_next_missing_slot(skipped, intent_name) # NONE
             THEN start_slot_collection(skipped)
             ELSE [st |-> skipped,
                   res |-> TurnResult("ready_to_execute", NONE, NONE)]
        ELSE [st |-> retry_result.st,
              res |-> [TurnResult("retry_slot", current_slot, NONE)
                         EXCEPT !.question = get_slot_questions(intent_name)[current_slot]]]

RECURSIVE fill_extracted(_, _, _)
\* Mutant: only one of the extracted values is written.
fill_extracted_one(st, extracted_values, names) ==
    IF names = {} THEN st
    ELSE LET slot_name == CHOOSE n \in names : TRUE
             filled == fill_slot(st, slot_name, extracted_values[slot_name], FALSE).st
         IN  confirm_slot(filled, slot_name).st

\* for slot_name, value in extracted_values.items(): fill_slot; confirm_slot
fill_extracted(st, extracted_values, names) ==
    IF names = {} THEN st
    ELSE LET slot_name == CHOOSE n \in names : TRUE
             filled == fill_slot(st, slot_name, extracted_values[slot_name], FALSE).st
         IN  fill_extracted(confirm_slot(filled, slot_name).st,
                            extracted_values, names \ {slot_name})

\* selected_slots: the slot selector's answer; extract[s]: the extractor's
\* answer for slot s (NONE when it finds nothing).
handle_slot_collection(st0, selected_slots, extract) ==
    LET intent_name == st0.active_intent
        unset == st0.current_slot_being_collected = NONE
        current_slot == IF unset THEN get_next_missing_slot(st0, intent_name)
                        ELSE st0.current_slot_being_collected
        st == IF unset THEN set_current_slot(st0, current_slot) ELSE st0
        filled_slots == get_filled_slots(st)
        extracted_values ==
            [s \in {n \in selected_slots :
                       n \notin DOMAIN filled_slots /\ extract[n] # NONE}
                |-> extract[s]]
    IN  IF intent_name = NONE
        THEN [st |-> st0, res |-> TurnResult("error", NONE, NONE)]
        ELSE IF selected_slots = {} /\ current_slot # NONE
                  /\ extract[current_slot] # NONE
        THEN fill_current_slot(st, intent_name, current_slot, extract[current_slot])
        ELSE IF selected_slots = {} /\ current_slot # NONE
        THEN retry_current_slot(st, intent_name, current_slot)
        ELSE IF DOMAIN extracted_values # {}
        THEN LET advanced == advance_state(
                     fill_extracted(st, extracted_values, DOMAIN extracted_values))
             IN  IF check_all_slots_filled(advanced, intent_name)
                 THEN [st |-> advanced,
                       res |-> TurnResult("ready_to_execute", NONE, NONE)]
                 ELSE start_slot_collection(advanced)
        ELSE IF current_slot # NONE /\ current_slot \notin selected_slots
                  /\ extract[current_slot] # NONE
        THEN fill_current_slot(st, intent_name, current_slot, extract[current_slot])
        ELSE IF current_slot # NONE
        THEN retry_current_slot(st, intent_name, current_slot)
        ELSE [st |-> st, res |-> TurnResult("processing", NONE, NONE)]

RECURSIVE confirm_all(_, _)
confirm_all(st, names) ==
    IF names = {} THEN st
    ELSE LET slot_name == CHOOSE n \in names : TRUE
         IN  confirm_all(confirm_slot(st, slot_name).st, names \ {slot_name})

RECURSIVE reject_all(_, _)
\* Mutant: only one of the pending slots is rejected.
reject_all_but_one(st, names) ==
    IF names = {} THEN st
    ELSE reject_normalization(st, CHOOSE n \in names : TRUE)

reject_all(st, names) ==
    IF names = {} THEN st
    ELSE LET slot_name == CHOOSE n \in names : TRUE
         IN  reject_all(reject_normalization(st, slot_name), names \ {slot_name})

\* Mutant: an utterance outside the affirmative lexicon counts as negative.
handle_normalization_confirmation_rejecting_unclear(st, user_utterance) ==
    LET utterance_lower == Strip(user_utterance)
        pending == IF Truthy(st.pending_normalization)
                   THEN DOMAIN st.pending_normalization.entries ELSE {}
    IN  IF utterance_lower \in AffirmativeLexicon
        THEN start_slot_collection(advance_state(confirm_all(st, pending)))
        ELSE start_slot_collection(advance_state(reject_all(st, pending)))

handle_normalization_confirmation(st, user_utterance) ==
    LET utterance_lower == Strip(user_utterance)
        pending == IF Truthy(st.pending_normalization)
                   THEN DOMAIN st.pending_normalization.entries ELSE {}
    IN  IF utterance_lower \in AffirmativeLexicon
        THEN start_slot_collection(advance_state(confirm_all(st, pending)))
        ELSE IF utterance_lower \in NegativeLexicon
        THEN start_slot_collection(advance_state(reject_all(st, pending)))
        ELSE IF pending # {}
        THEN LET slot_name == CHOOSE n \in pending : TRUE
             IN  [st |-> st,
                  res |-> [TurnResult("confirm_normalization", slot_name, NONE)
                             EXCEPT !.proposed_value =
                                       st.pending_normalization.entries[slot_name]]]
        ELSE [st |-> st, res |-> TurnResult("confirm_normalization", NONE, NONE)]

\* The body of process_user_input from line 82 on; current_state is what
\* self.fsm.get_state() returned on line 81.  detected_intent,
\* selected_slots, extract: what the intent router, the slot selector and
\* the slot extractor answer for this utterance.
process_user_input_from(current_state, st, user_utterance, detected_intent, selected_slots, extract) ==
        IF Strip(user_utterance) = ""
        THEN [st |-> st, res |-> TurnResult("clarify", NONE, NONE)]
        ELSE IF current_state = "TERMINATED"
        THEN [st |-> st, res |-> TurnResult("terminated", NONE, NONE)]
        ELSE IF current_state \in {"INIT", "GENERAL_CHAT"}
        THEN IF detected_intent # NONE
             THEN LET r == set_active_intent(st, detected_intent)
                  IN  IF ~r.ret
                      THEN [st |-> r.st,
                            res |-> TurnResult("intent_queued", NONE, detected_intent)]
                      ELSE start_slot_collection(r.st)
             ELSE [st |-> IF current_state = "INIT" THEN set_general_chat(st) ELSE st,
                   res |-> TurnResult("general_chat", NONE, NONE)]
        ELSE IF current_state = "CONFIRMING_NORMALIZATION"
        THEN handle_normalization_confirmation(st, user_utterance)
        ELSE IF current_state = "COLLECTING_SLOT"
        THEN handle_slot_collection(st, selected_slots, extract)
        ELSE IF current_state = "READY_TO_EXECUTE"
        THEN IF is_execution_confirmation(user_utterance)
             THEN [st |-> st,
                   res |-> [TurnResult("execute_action", NONE, st.active_intent)
                              EXCEPT !.slots = get_filled_slots(st)]]
             ELSE handle_slot_collection(st, selected_slots, extract)
        ELSE [st |-> st, res |-> TurnResult("processing", NONE, NONE)]

process_user_input(st, user_utterance, detected_intent, selected_slots, extract) ==
    process_user_input_from(st.current_state, st, user_utterance, detected_intent,
                            selected_slots, extract)

\* DialogueManager.execute_action: the state after the call and the returned
\* 'success', 'intent' and 'slots'.
execute_action(st) ==
    LET intent_name == st.active_intent
    IN  IF intent_name = NONE
        THEN [st |-> st, success |-> FALSE, intent |-> NONE, slots |-> EmptyDict]
        ELSE IF ~check_all_slots_filled(st, intent_name)
        THEN [st |-> st, success |-> FALSE, intent |-> NONE, slots |-> EmptyDict]
        ELSE [st |-> start_action_execution(st), success |-> TRUE,
              intent |-> intent_name,
              slots |-> get_filled_slots(start_action_execution(st))]

propose_normalization(st, slot_name, proposed_value) ==
    transition_to(set_pending_normalization(st, slot_name, proposed_value),
                  "CONFIRMING_NORMALIZATION")

\* The action of a turn that ended with an exception instead of a result.
RAISED == "Exception"

\* Whether the turn calls a collaborator: the intent router in INIT and
\* GENERAL_CHAT (line 93), the slot selector and then the slot extractor in
\* _handle_slot_collection (lines 196-210).
calls_collaborator(st, user_utterance) ==
    /\ Strip(user_utterance) # ""
    /\ \/ st.current_state \in {"INIT", "GENERAL_CHAT"}
       \/ /\ \/ st.current_state = "COLLECTING_SLOT"
             \/ /\ st.current_state = "READY_TO_EXECUTE"
                /\ ~is_execution_confirmation(user_utterance)
          /\ st.active_intent # NONE

\* process_user_input when the first collaborator it calls raises: no
\* try/except surrounds the calls, so the exception leaves the method with
\* the state as mutated so far (set_current_slot, lines 189-192).
process_user_input_raising(st, user_utterance) ==
    IF ~calls_collaborator(st, user_utterance)
    THEN process_user_input(st, user_utterance, NONE, {}, [s \in SlotNames |-> NONE])
    ELSE IF st.current_state \in {"INIT", "GENERAL_CHAT"}
    THEN [st |-> st, res |-> TurnResult(RAISED, NONE, NONE)]
    ELSE [st  |-> IF st.current_slot_being_collected = NONE
                  THEN set_current_slot(st, get_next_missing_slot(st, st.active_intent))
                  ELSE st,
          res |-> TurnResult(RAISED, NONE, NONE)]

(***************************************************************************)
(* Agent (src/app.py)                                                      *)
(***************************************************************************)

\* SlotNormalizer.needs_normalization on the modelled values: "next monday"
\* contains a relative date expression, "john smith" and "" contain none,
\* and none of them contains an ambiguous time expression.
needs_normalization(slot_name, value) == value = "next monday"

\* 'date' in slot_name.lower()
IsDateSlot(slot_name) == slot_name \in {"start_date", "end_date", "incident_date"}

\* SlotNormalizer.normalize_value: a relative date in a date slot becomes a
\* calendar date; for other slots the proposal is Groq's answer groq (NONE
\* when Groq fails or repeats the value).  No modelled slot is a time slot.
normalize_value(slot_name, value, groq) ==
    IF ~needs_normalization(slot_name, value) THEN NONE
    ELSE IF IsDateSlot(slot_name) THEN "2025-01-13"
    ELSE groq

\* ConversationStore.save_conversation_state: the snapshot of the FSM is
\* handed to the storage client.
save_conversation_state(st) == SomeDict(get_state_snapshot(st))

\* The state in which _execute_action runs the side effect: the FSM as the
\* turn of the dialogue manager left it (no call precedes _execute_action).
execution_state(turn) == turn.st

\* The rest of process_message after the dialogue manager's turn, up to the
\* execution (lines 102-166).  groq: Groq's answer to the normalizer;
\* success: whether the Slack execution reports success (an exception counts
\* as failure).  No turn result has the action 'fill' or a 'value' entry in
\* its metadata; metadata.get('value', '') is "".
\* Mutant: the action is completed whatever the execution reports.
execute_turn_completing_always(turn, groq, success) ==
    IF turn.res.action = "execute_action"
    THEN [st  |-> complete_action(execution_state(turn)),
          res |-> [turn.res EXCEPT !.action = "action_completed",
                                   !.execution_result = Bool(success)]]
    ELSE turn

execute_turn(turn, groq, success) ==
    LET value == ""
        proposed_value == normalize_value(turn.res.slot, value, groq)
        normalize == turn.res.action = "fill" /\ turn.res.slot # NONE
                     /\ needs_normalization(turn.res.slot, value)
                     /\ proposed_value # NONE
    IN  IF normalize
        THEN [st  |-> propose_normalization(turn.st, turn.res.slot, proposed_value),
              res |-> [turn.res EXCEPT !.action = "confirm_normalization",
                                       !.proposed_value = proposed_value]]
        ELSE IF turn.res.action = "execute_action"
        THEN [st  |-> IF success THEN complete_action(execution_state(turn))
                      ELSE execution_state(turn),
              res |-> [turn.res EXCEPT !.action = "action_completed",
                                       !.execution_result = Bool(success)]]
        ELSE turn

\* The end of process_message (lines 168-183): the state as the turn left it
\* is saved.
save_turn(turn) ==
    [st |-> turn.st, res |-> turn.res, saved |-> save_conversation_state(turn.st)]

\* Mutant: the state is saved before the action is executed.
process_message_result_saving_first(turn, groq, success) ==
    [save_turn(turn) EXCEPT !.st = execute_turn(turn, groq, success).st,
                            !.res = execute_turn(turn, groq, success).res]

process_message_result(turn, groq, success) ==
    save_turn(execute_turn(turn, groq, success))

\* The save that opens process_message (line 91) is the last one when the
\* turn ends with an exception.
save_before_turn(st, turn) ==
    [st |-> turn.st, res |-> turn.res, saved |-> save_conversation_state(st)]

\* process_message when the first collaborator of the turn raises.
process_message_raising(st, user_message) ==
    save_before_turn(st, process_user_input_raising(st, user_message))

process_message(st, user_message, detected_intent, selected_slots, extract, groq, success) ==
    process_message_result(process_user_input(st, user_message, detected_intent,
                                              selected_slots, extract),
                           groq, success)

(***************************************************************************)
(* State machine                                                           *)
(***************************************************************************)

\* What the collaborators answered during a turn, where the turn is observed:
\* nothing for a call that is not observed.
Unobserved == [detected_intent |-> NONE, selected_slots |-> {}, extract |-> EmptyDict]

\* What the last call was and what it returned.  For an FSM method: op, its
\* arguments slot, intent and value, and ret ("True", "False", or "None" for
\* a method without return value).  For a turn: op, the utterance, the
\* action, and the metadata entries slot, intent, question, value (the
\* proposed value) and slots.
CallResult(op, slot, intent, value, ret) ==
    [op |-> op, utterance |-> NONE, slot |-> slot, intent |-> intent,
     value |-> value, ret |-> ret, action |-> NONE, slots |-> EmptyDict,
     question |-> NONE, execution_result |-> NONE, answers |-> Unobserved]

TurnCallResult(op, utterance, res) ==
    [op |-> op, utterance |-> utterance, slot |-> res.slot, intent |-> res.intent,
     value |-> res.proposed_value, ret |-> NONE, action |-> res.action,
     slots |-> res.slots, question |-> res.question,
     execution_result |-> res.execution_result, answers |-> Unobserved]

\* The chat requests of one session that the threaded server can be serving
\* at once, and where each of them is: idle (no such request), or inside
\* process_user_input with the phase it read and the message it carries.
MaxRequests == 2

Requests == 1..MaxRequests

Idle == [pc |-> "idle", user_message |-> NONE, current_state |-> NONE]

\* A snapshot dict held by a caller of the FSM, and which of its mutable
\* members the FSM's state refers to as well: get_state_snapshot() builds
\* them as copies, load_state_snapshot(blob) assigns blob's own list and
\* dicts to the state.  No snapshot is held at first.
SharedMembers == {"queued_intents", "slot_retry_counts", "pending_normalization"}

NoBlob == [held |-> FALSE, snapshot |-> get_state_snapshot(FSMStateData), shared |-> {}]

\* The members load_state_snapshot(snapshot) makes the state share with the
\* snapshot: the list and the dict, and the pending dict unless it is None.
shared_by_load(snapshot) ==
    {"queued_intents", "slot_retry_counts"}
      \cup (IF snapshot.pending_normalization.is_none THEN {}
            ELSE {"pending_normalization"})

\* The blob after an operation that left the FSM in st and assigned new
\* objects to the members reassigned: a member still shared was written in
\* place, if at all, and reads as the state's; the others keep their value.
write_through(b, st, reassigned) ==
    [b EXCEPT !.shared = @ \ reassigned,
              !.snapshot = [f \in DOMAIN b.snapshot |->
                              IF f \in b.shared \ reassigned THEN st[f]
                              ELSE b.snapshot[f]]]

\* The members a call of set_active_intent that starts a task reassigns
\* (fsm.py lines 127 and 129).
reassigned_by_start == {"slot_retry_counts", "pending_normalization"}

\* The members a turn reassigns, the FSM being st before it: the retry
\* counters when it starts a task, by detection (read_state the phase the
\* turn read) or by dequeuing after a successful execution; the pending
\* dict when it leaves None there, for a turn only ever assigns None to it.
reassigned_by_turn(read_state, st, turn) ==
    (IF \/ /\ read_state \in {"INIT", "GENERAL_CHAT"}
             /\ turn.res.action \in {"ask_slot", "ready_to_execute"}
          \/ /\ turn.res.action = "action_completed"
             /\ turn.res.execution_result = "True"
             /\ st.queued_intents # <<>>
     THEN {"slot_retry_counts"} ELSE {})
      \cup (IF turn.st.pending_normalization.is_none
            THEN {"pending_normalization"} ELSE {})

\* active_agents is the interface's registry read for the one session id:
\* entry is the agent registered for it (agents are numbered from 1 as they
\* are constructed, 0 is no entry) and created counts the agents constructed
\* for the session since the last reset.  A chat request of the session is
\* not there (idle), in the constructor after get_or_create_agent found no
\* entry (constructing), has stored its agent (registered), or holds the
\* agent get_or_create_agent returned (process_message).
NoChat == [pc |-> "idle", agent |-> 0]

Init ==
    /\ state_data = FSMStateData
    /\ result = CallResult("__init__", NONE, NONE, NONE, NONE)
    /\ in_flight = [r \in Requests |-> Idle]
    /\ saved = NoDict
    /\ blob = NoBlob
    /\ active_agents = [entry |-> 0, created |-> 0]
    /\ chat_requests = [r \in Requests |-> NoChat]

RetryCountsWithin(st, bound) ==
    \A s \in DOMAIN st.slot_retry_counts : st.slot_retry_counts[s] <= bound

\* The slot whose answer a collection turn looks for (lines 189-192).
slot_in_question(st) ==
    IF st.current_slot_being_collected = NONE
    THEN get_next_missing_slot(st, st.active_intent)
    ELSE st.current_slot_being_collected

\* The schema slots the selector may return: those not confirmed
\* (slot_selector.py line 70).
available_slots(st) ==
    IF st.active_intent = NONE THEN {}
    ELSE Range(get_slot_names(st.active_intent)) \ DOMAIN get_filled_slots(st)

\* The answers the collaborators can give in state st, the selector choosing
\* among selections: the intent router is asked in INIT and GENERAL_CHAT
\* only and detects a task of detectable or none; the extractor is asked for the selected slots and for the slot in
\* question, and knows only the slots of the task's schema
\* (slot_extractor.py lines 63-65).
CollaboratorAnswers(st, selections, detectable) ==
    LET schema == IF st.active_intent = NONE THEN {}
                  ELSE Range(get_slot_names(st.active_intent))
        silent == [s \in SlotNames |-> NONE]
    IN  IF st.current_state \in {"INIT", "GENERAL_CHAT"}
        THEN {[detected_intent |-> d, selected_slots |-> {}, extract |-> silent] :
                 d \in detectable \cup {NONE}}
        ELSE IF st.current_state \in {"COLLECTING_SLOT", "READY_TO_EXECUTE"}
        THEN UNION {
               {[detected_intent |-> NONE, selected_slots |-> sel,
                 extract |-> [s \in SlotNames |->
                                IF s \in DOMAIN f THEN f[s] ELSE NONE]] :
                  f \in [(sel \cup {slot_in_question(st)}) \cap schema
                           -> Values \cup {NONE}]} :
               sel \in selections}
        ELSE {[detected_intent |-> NONE, selected_slots |-> {}, extract |-> silent]}

\* The selector's possible answers: any set of available slots, or (single)
\* at most the slot in question.
Selections(st, single) ==
    IF single THEN {{}, {slot_in_question(st)} \cap available_slots(st)}
    ELSE SUBSET available_slots(st)

\* The turn's outcome becomes the state, the retry counters staying within
\* bound; a turn of the agent hands a snapshot to the store.
Return(op, utterance, turn, bound) ==
    /\ RetryCountsWithin(turn.st, bound)
    /\ state_data' = turn.st
    /\ result' = TurnCallResult(op, utterance, turn.res)
    /\ saved' = IF "saved" \in DOMAIN turn THEN turn.saved ELSE saved
    /\ blob' = write_through(blob, turn.st,
                             reassigned_by_turn(state_data.current_state, state_data, turn))
    /\ UNCHANGED <<in_flight, active_agents, chat_requests>>

\* The same, the collaborators' answers being observed.
ReturnObserved(op, utterance, turn, answers, bound) ==
    /\ RetryCountsWithin(turn.st, bound)
    /\ state_data' = turn.st
    /\ result' = [TurnCallResult(op, utterance, turn.res) EXCEPT !.answers = answers]
    /\ blob' = write_through(blob, turn.st,
                             reassigned_by_turn(state_data.current_state, state_data, turn))
    /\ UNCHANGED <<in_flight, saved, active_agents, chat_requests>>

\* One turn of DialogueManager.process_user_input: the user says one of
\* utterances, the retry counters stay within bound.
ProcessUserInputWith(utterances, single, detectable, bound) ==
    \E u \in utterances :
      \E c \in CollaboratorAnswers(state_data, Selections(state_data, single), detectable) :
        Return("process_user_input", u,
               process_user_input(state_data, u, c.detected_intent,
                                  c.selected_slots, c.extract),
               bound)

\* One turn of process_user_input, the collaborators' answers observed.
ProcessUserInputObserved(utterances, single, detectable, bound) ==
    \E u \in utterances :
      \E c \in CollaboratorAnswers(state_data, Selections(state_data, single), detectable) :
        ReturnObserved("process_user_input", u,
                       process_user_input(state_data, u, c.detected_intent,
                                          c.selected_slots, c.extract),
                       c, bound)

\* One turn of process_user_input in which the user names a task: the
\* utterance is the task's name, which the intent router detects when it is
\* asked; selector and extractor answer as in any turn.
ProcessUserInputNaming(single, bound) ==
    \E name \in Intents :
      \E c \in CollaboratorAnswers(state_data, Selections(state_data, single), {name}) :
        /\ state_data.current_state \in {"INIT", "GENERAL_CHAT"} => c.detected_intent = name
        /\ Return("process_user_input", name,
                  process_user_input(state_data, name, c.detected_intent,
                                     c.selected_slots, c.extract),
                  bound)

\* One turn of process_user_input with a cooperative user: during a task
\* the extractor returns a value for the slot in question; the selector
\* returns any set of unconfirmed slots and the extractor answers anything
\* for the others.
ProcessUserInputCooperative(utterances, bound) ==
    \E u \in utterances :
      \E c \in CollaboratorAnswers(state_data, Selections(state_data, FALSE), Intents) :
        /\ state_data.current_state \in {"COLLECTING_SLOT", "READY_TO_EXECUTE"}
              => \/ slot_in_question(state_data) = NONE
                 \/ c.extract[slot_in_question(state_data)] # NONE
        /\ Return("process_user_input", u,
                  process_user_input(state_data, u, c.detected_intent,
                                     c.selected_slots, c.extract),
                  bound)

\* One turn of process_user_input in which a collaborator raises.
ProcessUserInputRaising(utterances, bound) ==
    \E u \in utterances :
      /\ calls_collaborator(state_data, u)
      /\ Return("process_user_input", u, process_user_input_raising(state_data, u), bound)

\* One turn of process_user_input in which every collaborator raises when
\* it is called.
ProcessUserInputFaulty(utterances, bound) ==
    \E u \in utterances :
      Return("process_user_input", u, process_user_input_raising(state_data, u), bound)

\* One call of process_message in which a collaborator raises.
ProcessMessageRaising(utterances, bound) ==
    \E u \in utterances :
      /\ calls_collaborator(state_data, u)
      /\ Return("process_message", u, process_message_raising(state_data, u), bound)

\* Groq's answer to the normalizer: a candidate, or nothing.
GroqAnswers == Candidates \cup {NONE}

\* What the execution can report.
ExecutionOutcomes == BOOLEAN

\* One call of HRConversationalAgent.process_message (the web interface
\* rejects an empty message before the agent sees it).
ProcessMessageWith(utterances, single, detectable, bound) ==
    \E u \in utterances :
      \E c \in CollaboratorAnswers(state_data, Selections(state_data, single), detectable) :
        \E groq \in GroqAnswers, success \in ExecutionOutcomes :
          Return("process_message", u,
                 process_message(state_data, u, c.detected_intent,
                                 c.selected_slots, c.extract, groq, success),
                 bound)

\* chat(): a request of the session arrives; its thread runs process_message
\* up to the collaborator calls of process_user_input, having read the phase
\* (dialogue_manager.py line 81).  Nothing keeps a second request of the
\* session from being served meanwhile.
ChatReceive(utterances) ==
    \E r \in Requests, u \in utterances :
      /\ in_flight[r] = Idle
      /\ in_flight' = [in_flight EXCEPT ![r] =
                         [pc |-> "process_user_input", user_message |-> u,
                          current_state |-> state_data.current_state]]
      /\ saved' = save_conversation_state(state_data)
      /\ UNCHANGED <<state_data, result, blob, active_agents, chat_requests>>

\* The phase request r read, in the state as it is now.
AsReadBy(r) == [state_data EXCEPT !.current_state = in_flight[r].current_state]

\* The rest of request r's turn becomes the state and r is answered.
Respond(r, turn, bound) ==
    /\ RetryCountsWithin(turn.st, bound)
    /\ state_data' = turn.st
    /\ result' = TurnCallResult("process_message", in_flight[r].user_message, turn.res)
    /\ saved' = turn.saved
    /\ blob' = write_through(blob, turn.st,
                             reassigned_by_turn(in_flight[r].current_state, state_data, turn))
    /\ in_flight' = [in_flight EXCEPT ![r] = Idle]
    /\ UNCHANGED <<active_agents, chat_requests>>

\* The collaborators answer and the thread of request r runs the rest of
\* process_message on the conversation's FSM.
ChatRespond(single, detectable, bound) ==
    \E r \in Requests :
      /\ in_flight[r] # Idle
      /\ \E c \in CollaboratorAnswers(AsReadBy(r), Selections(state_data, single), detectable) :
           \E groq \in GroqAnswers, success \in ExecutionOutcomes :
             Respond(r,
                     process_message_result(
                       process_user_input_from(in_flight[r].current_state, state_data,
                                               in_flight[r].user_message,
                                               c.detected_intent, c.selected_slots,
                                               c.extract),
                       groq, success),
                     bound)

\* chat() calls get_or_create_agent: the request finds the session's entry,
\* or finds none and enters the agent's constructor (interface/app.py
\* line 25).
ChatLookup ==
    \E r \in Requests :
      /\ chat_requests[r].pc = "idle"
      /\ chat_requests' = [chat_requests EXCEPT ![r] =
                             IF active_agents.entry # 0
                             THEN [pc |-> "process_message", agent |-> active_agents.entry]
                             ELSE [pc |-> "constructing", agent |-> 0]]
      /\ UNCHANGED <<state_data, result, in_flight, saved, blob, active_agents>>

\* The constructor returns and the request stores its new agent under the
\* session id (line 26), whatever is stored there: the session's agent is
\* now one with a fresh FSM and a conversation id nothing was saved for.
ChatCreate ==
    \E r \in Requests :
      /\ chat_requests[r].pc = "constructing"
      /\ active_agents' = [entry |-> active_agents.created + 1,
                           created |-> active_agents.created + 1]
      /\ chat_requests' = [chat_requests EXCEPT ![r] =
                             [pc |-> "registered", agent |-> active_agents.created + 1]]
      /\ state_data' = FSMStateData
      /\ saved' = NoDict
      /\ blob' = write_through(blob, state_data', SharedMembers)
      /\ result' = CallResult("get_or_create_agent", NONE, NONE, NONE, NONE)
      /\ UNCHANGED in_flight

\* get_or_create_agent returns the entry as it is now (line 32).
ChatReturn ==
    \E r \in Requests :
      /\ chat_requests[r].pc = "registered"
      /\ chat_requests' = [chat_requests EXCEPT ![r] =
                             [pc |-> "process_message", agent |-> active_agents.entry]]
      /\ UNCHANGED <<state_data, result, in_flight, saved, blob, active_agents>>

\* agent.process_message(user_message) on the agent the request holds, which
\* is the session's agent: the turn becomes the state.
ChatProcess(utterances, single, detectable, bound) ==
    \E r \in Requests, u \in utterances :
      /\ chat_requests[r].pc = "process_message"
      /\ chat_requests[r].agent = active_agents.entry
      /\ \E c \in CollaboratorAnswers(state_data, Selections(state_data, single), detectable) :
           \E groq \in GroqAnswers, success \in ExecutionOutcomes :
             LET turn == process_message(state_data, u, c.detected_intent,
                                         c.selected_slots, c.extract, groq, success)
             IN  /\ RetryCountsWithin(turn.st, bound)
                 /\ state_data' = turn.st
                 /\ result' = TurnCallResult("process_message", u, turn.res)
                 /\ saved' = turn.saved
                 /\ blob' = write_through(blob, turn.st,
                                reassigned_by_turn(state_data.current_state, state_data, turn))
      /\ chat_requests' = [chat_requests EXCEPT ![r] = NoChat]
      /\ UNCHANGED <<in_flight, active_agents>>

\* agent.process_message(user_message) on an agent that is not the
\* session's: the turn changes an agent no later request of the session
\* gets.
ChatProcessReplaced(utterances) ==
    \E r \in Requests, u \in utterances :
      /\ chat_requests[r].pc = "process_message"
      /\ chat_requests[r].agent # active_agents.entry
      /\ result' = [CallResult("process_message_replaced", NONE, NONE, NONE, NONE)
                      EXCEPT !.utterance = u]
      /\ chat_requests' = [chat_requests EXCEPT ![r] = NoChat]
      /\ UNCHANGED <<state_data, in_flight, saved, blob, active_agents>>

\* reset(), served while no chat request of the session is under way: the
\* entry is deleted and the session goes on under a new id (lines 117-122).
Reset ==
    /\ \A r \in Requests : chat_requests[r] = NoChat
    /\ active_agents.entry # 0
    /\ active_agents' = [entry |-> 0, created |-> 0]
    /\ result' = CallResult("reset", NONE, NONE, NONE, NONE)
    /\ UNCHANGED <<state_data, in_flight, saved, blob, chat_requests>>

\* Direct calls of the FSM's methods, with slot names drawn from S.
SetActiveIntent ==
    \E name \in Intents :
      LET r == set_active_intent(state_data, name)
      IN  /\ state_data' = r.st
          /\ result' = CallResult("set_active_intent", NONE, name, NONE, Bool(r.ret))
          /\ blob' = write_through(blob, r.st, IF r.ret THEN reassigned_by_start ELSE {})
          /\ UNCHANGED <<in_flight, saved, active_agents, chat_requests>>

SetGeneralChat ==
    /\ state_data' = set_general_chat(state_data)
    /\ result' = CallResult("set_general_chat", NONE, NONE, NONE, NONE)
    /\ blob' = write_through(blob, state_data', {})
    /\ UNCHANGED <<in_flight, saved, active_agents, chat_requests>>

FillSlot(S) ==
    \E slot_name \in S, value \in Values :
      LET r == fill_slot(state_data, slot_name, value, FALSE)
      IN  /\ state_data' = r.st
          /\ result' = CallResult("fill_slot", slot_name, NONE, value, Bool(r.ret))
          /\ blob' = write_through(blob, r.st, {})
          /\ UNCHANGED <<in_flight, saved, active_agents, chat_requests>>

ConfirmSlot(S) ==
    \E slot_name \in S :
      LET r == confirm_slot(state_data, slot_name)
      IN  /\ state_data' = r.st
          /\ result' = CallResult("confirm_slot", slot_name, NONE, NONE, Bool(r.ret))
          /\ blob' = write_through(blob, r.st, IF r.ret THEN {"pending_normalization"} ELSE {})
          /\ UNCHANGED <<in_flight, saved, active_agents, chat_requests>>

RejectNormalization(S) ==
    \E slot_name \in S :
      /\ state_data' = reject_normalization(state_data, slot_name)
      /\ result' = CallResult("reject_normalization", slot_name, NONE, NONE, NONE)
      /\ blob' = write_through(blob, state_data', {"pending_normalization"})
      /\ UNCHANGED <<in_flight, saved, active_agents, chat_requests>>

IncrementRetry(S, bound) ==
    \E slot_name \in S :
      LET r == increment_retry(state_data, slot_name)
      IN  /\ RetryCountsWithin(r.st, bound)
          /\ state_data' = r.st
          /\ result' = CallResult("increment_retry", slot_name, NONE, NONE, Bool(r.ret))
          /\ blob' = write_through(blob, r.st, {})
          /\ UNCHANGED <<in_flight, saved, active_agents, chat_requests>>

SetPendingNormalization(S) ==
    \E slot_name \in S, proposed_value \in Candidates :
      /\ state_data' = set_pending_normalization(state_data, slot_name, proposed_value)
      /\ result' = CallResult("set_pending_normalization", slot_name, NONE,
                              proposed_value, NONE)
      /\ blob' = write_through(blob, state_data', IF state_data.pending_normalization.is_none THEN {"pending_normalization"} ELSE {})
      /\ UNCHANGED <<in_flight, saved, active_agents, chat_requests>>

AdvanceState ==
    /\ state_data' = advance_state(state_data)
    /\ result' = CallResult("advance_state", NONE, NONE, NONE, NONE)
    /\ blob' = write_through(blob, state_data', IF state_data.current_state = "COMPLETED" /\ state_data.queued_intents # <<>> THEN reassigned_by_start ELSE {})
    /\ UNCHANGED <<in_flight, saved, active_agents, chat_requests>>

StartActionExecution ==
    /\ state_data' = start_action_execution(state_data)
    /\ result' = CallResult("start_action_execution", NONE, NONE, NONE, NONE)
    /\ blob' = write_through(blob, state_data', {})
    /\ UNCHANGED <<in_flight, saved, active_agents, chat_requests>>

CompleteAction ==
    /\ state_data' = complete_action(state_data)
    /\ result' = CallResult("complete_action", NONE, NONE, NONE, NONE)
    /\ blob' = write_through(blob, state_data', IF state_data.queued_intents # <<>> THEN reassigned_by_start ELSE {})
    /\ UNCHANGED <<in_flight, saved, active_agents, chat_requests>>

Terminate ==
    /\ state_data' = terminate(state_data)
    /\ result' = CallResult("terminate", NONE, NONE, NONE, NONE)
    /\ blob' = write_through(blob, state_data', {})
    /\ UNCHANGED <<in_flight, saved, active_agents, chat_requests>>

\* blob = fsm.get_state_snapshot(): the caller holds a new snapshot, built
\* from copies.
GetStateSnapshot ==
    /\ blob' = [held |-> TRUE, snapshot |-> get_state_snapshot(state_data), shared |-> {}]
    /\ result' = CallResult("get_state_snapshot", NONE, NONE, NONE, NONE)
    /\ UNCHANGED <<state_data, in_flight, saved, active_agents, chat_requests>>

\* fsm.load_state_snapshot(blob) with the snapshot the caller holds.
LoadStateSnapshot ==
    /\ blob.held
    /\ state_data' = load_state_snapshot(state_data, blob.snapshot)
    /\ blob' = [blob EXCEPT !.shared = shared_by_load(blob.snapshot)]
    /\ result' = CallResult("load_state_snapshot", NONE, NONE, NONE, NONE)
    /\ UNCHANGED <<in_flight, saved, active_agents, chat_requests>>

\* load_state_snapshot(get_state_snapshot()) on the same FSM.
RestoreSnapshot ==
    /\ state_data' = load_state_snapshot(state_data, get_state_snapshot(state_data))
    /\ result' = CallResult("load_state_snapshot", NONE, NONE, NONE, NONE)
    /\ blob' = write_through(blob, state_data', SharedMembers)
    /\ UNCHANGED <<in_flight, saved, active_agents, chat_requests>>

\* DialogueManager.propose_normalization.
ProposeNormalization(S) ==
    \E slot_name \in S, proposed_value \in Candidates :
      /\ state_data' = propose_normalization(state_data, slot_name, proposed_value)
      /\ result' = CallResult("propose_normalization", slot_name, NONE,
                              proposed_value, NONE)
      /\ blob' = write_through(blob, state_data', IF state_data.pending_normalization.is_none THEN {"pending_normalization"} ELSE {})
      /\ UNCHANGED <<in_flight, saved, active_agents, chat_requests>>

\* DialogueManager.execute_action.
ExecuteAction ==
    LET r == execute_action(state_data)
    IN  /\ state_data' = r.st
        /\ result' = [CallResult("execute_action", NONE, r.intent, NONE, Bool(r.success))
                        EXCEPT !.slots = r.slots]
        /\ blob' = write_through(blob, r.st, {})
        /\ UNCHANGED <<in_flight, saved, active_agents, chat_requests>>

\* The agent as deployed: a conversation is a sequence of process_message
\* calls.
ProcessMessage ==
    ProcessMessageWith({"yes", "john smith"}, FALSE, Intents, MaxRetryCount)

Next == ProcessMessage

Spec == Init /\ [][Next]_vars

\* Direct use of the FSM's slot methods between turns of a conversation
\* about file_medical_claim.
ClaimSlots == Range(TASK_SCHEMAS["file_medical_claim"])

SlotsRetryBound == 1

ProcessUserInputSlots ==
    ProcessUserInputWith({"yes", "john smith"}, FALSE,
                         {"file_medical_claim"}, SlotsRetryBound)

NextSlots ==
    \/ ProcessUserInputSlots
    \/ FillSlot(ClaimSlots)
    \/ ConfirmSlot(ClaimSlots)
    \/ RejectNormalization(ClaimSlots)
    \/ SetPendingNormalization(ClaimSlots)
    \/ IncrementRetry(ClaimSlots, SlotsRetryBound)
    \/ AdvanceState
    \/ StartActionExecution

SpecSlots == Init /\ [][NextSlots]_vars

\* Direct use of set_active_intent and of the phase methods during
\* conversations in which the selector signals at most the slot in question.
QueueRetryBound == 1

ProcessUserInputQueue ==
    ProcessUserInputWith({"yes", "no", "john smith"}, TRUE, Intents, QueueRetryBound)

NextQueue ==
    \/ ProcessUserInputQueue
    \/ SetActiveIntent
    \/ SetGeneralChat
    \/ SetPendingNormalization({"employee_name"})
    \/ AdvanceState
    \/ StartActionExecution
    \/ CompleteAction

SpecQueue == Init /\ [][NextQueue]_vars

\* Direct use of increment_retry across task instances.
NextRetry ==
    \/ SetActiveIntent
    \/ FillSlot(ClaimSlots)
    \/ IncrementRetry(ClaimSlots, MaxRetryCount)
    \/ CompleteAction

SpecRetry == Init /\ [][NextRetry]_vars

\* Conversations in which every utterance answers the slot in question: the
\* selector signals at most that slot and, with the bound 0 on the retry
\* counters, no turn fails to extract its value.
OrderedRetryBound == 0

ProcessMessageOrdered ==
    ProcessMessageWith({"yes", "no", "john smith"}, TRUE, Intents, OrderedRetryBound)

NextOrdered == ProcessMessageOrdered

SpecOrdered == Init /\ [][NextOrdered]_vars

\* The whole life of a conversation: turns in which every utterance answers
\* the slot in question, and direct use of the FSM's task, phase and slot
\* methods, terminate included.
LifecycleRetryBound == 0

ProcessUserInputLifecycle ==
    ProcessUserInputWith({"yes", "john smith"}, TRUE, Intents, LifecycleRetryBound)

NextLifecycle ==
    \/ ProcessUserInputLifecycle
    \/ SetActiveIntent
    \/ SetGeneralChat
    \/ FillSlot({"incident_date"})
    \/ ConfirmSlot({"incident_date"})
    \/ SetPendingNormalization({"employee_name"})
    \/ AdvanceState
    \/ StartActionExecution
    \/ CompleteAction
    \/ Terminate

SpecLifecycle == Init /\ [][NextLifecycle]_vars

\* Conversations in which a collaborator may raise during a turn.
FailingRetryBound == 1

ProcessUserInputFailing ==
    ProcessUserInputWith({"yes", "no", "john smith"}, TRUE, Intents, FailingRetryBound)

NextFailing ==
    \/ ProcessUserInputFailing
    \/ ProcessUserInputRaising({"yes", "john smith"}, FailingRetryBound)

SpecFailing == Init /\ [][NextFailing]_vars

\* The web interface: the threaded server serves the chat requests of one
\* session concurrently.
ConcurrentRetryBound == 0

NextConcurrent ==
    \/ ChatReceive({"yes", "john smith"})
    \/ ChatRespond(TRUE, Intents, ConcurrentRetryBound)

SpecConcurrent == Init /\ [][NextConcurrent]_vars

\* Conversations with empty and whitespace-only utterances in every phase,
\* including turns during which every collaborator that is called raises.
EmptyRetryBound == 0

ProcessUserInputEmpty ==
    ProcessUserInputWith({"", "  ", "yes", "john smith"}, TRUE, Intents, EmptyRetryBound)

NextEmpty ==
    \/ ProcessUserInputEmpty
    \/ ProcessUserInputFaulty({"", "  ", "john smith"}, EmptyRetryBound)
    \/ SetPendingNormalization({"employee_name"})
    \/ AdvanceState
    \/ StartActionExecution
    \/ Terminate

SpecEmpty == Init /\ [][NextEmpty]_vars

\* Normalization proposals for the slots of file_medical_claim and the turns
\* that answer them.
NormalizationRetryBound == 0

ProcessUserInputNormalization ==
    ProcessUserInputWith({"yes", "no", "john smith"}, TRUE,
                         {"file_medical_claim"}, NormalizationRetryBound)

NextNormalization ==
    \/ ProcessUserInputNormalization
    \/ FillSlot(ClaimSlots)
    \/ ConfirmSlot(ClaimSlots)
    \/ SetPendingNormalization(ClaimSlots)
    \/ AdvanceState

SpecNormalization == Init /\ [][NextNormalization]_vars

\* Conversations in which the selector may signal any set of unconfirmed
\* slots, the collaborators' answers being observed; set_active_intent
\* queues a task, set_general_chat leaves a task and complete_action ends it.
ObservedRetryBound == 1

NextObserved ==
    \/ ProcessUserInputObserved({"yes", "john smith"}, FALSE, Intents, ObservedRetryBound)
    \/ SetActiveIntent
    \/ SetGeneralChat
    \/ CompleteAction

SpecObserved == Init /\ [][NextObserved]_vars

\* The agent with its conversation store: calls of process_message that
\* complete and calls that end with a collaborator's exception;
\* set_active_intent queues tasks.
PersistRetryBound == 1

NextPersist ==
    \/ ProcessMessageWith({"yes", "john smith"}, TRUE, Intents, PersistRetryBound)
    \/ ProcessMessageRaising({"yes", "john smith"}, PersistRetryBound)
    \/ SetActiveIntent

SpecPersist == Init /\ [][NextPersist]_vars

\* Every operation that moves the FSM, restore and a raw transition_to
\* aside, called directly between the turns of a conversation.
OperationsRetryBound == 1

NextOperations ==
    \/ ProcessUserInputWith({"yes", "john smith"}, TRUE, Intents, OperationsRetryBound)
    \/ SetActiveIntent
    \/ SetGeneralChat
    \/ FillSlot({"incident_date"})
    \/ ConfirmSlot({"incident_date"})
    \/ RejectNormalization({"incident_date"})
    \/ IncrementRetry({"employee_name"}, OperationsRetryBound)
    \/ AdvanceState
    \/ StartActionExecution
    \/ CompleteAction
    \/ ExecuteAction

SpecOperations == Init /\ [][NextOperations]_vars

\* Conversations in which the user may name a task in any turn, with
\* complete_action ending the active task.
NamingRetryBound == 1

NextNaming ==
    \/ ProcessUserInputNaming(TRUE, NamingRetryBound)
    \/ ProcessUserInputWith({"yes", "john smith"}, TRUE, {}, NamingRetryBound)
    \/ CompleteAction

SpecNaming == Init /\ [][NextNaming]_vars

\* Conversations with a cooperative user, who goes on answering as long as
\* the conversation lasts.
CooperativeRetryBound == 0

NextCooperative ==
    ProcessUserInputCooperative({"yes", "john smith"}, CooperativeRetryBound)

SpecCooperative ==
    Init /\ [][NextCooperative]_vars /\ WF_vars(NextCooperative)

\* Snapshots taken and loaded between direct calls of the FSM's methods.
SnapshotRetryBound == 1

NextSnapshot ==
    \/ GetStateSnapshot
    \/ LoadStateSnapshot
    \/ SetActiveIntent
    \/ IncrementRetry({"employee_name"}, SnapshotRetryBound)
    \/ SetPendingNormalization({"employee_name"})
    \/ ConfirmSlot({"employee_name"})
    \/ CompleteAction

SpecSnapshot == Init /\ [][NextSnapshot]_vars

\* The web interface with its registry of agents: chat requests of one
\* session served concurrently, and resets.
AgentsRetryBound == 0

NextAgents ==
    \/ ChatLookup
    \/ ChatCreate
    \/ ChatReturn
    \/ ChatProcess({"john smith"}, TRUE, {"file_medical_claim"}, AgentsRetryBound)
    \/ ChatProcessReplaced({"john smith"})
    \/ Reset

SpecAgents == Init /\ [][NextAgents]_vars

(***************************************************************************)
(* Properties                                                              *)
(***************************************************************************)

\* The step starts a new task instance: set_active_intent returned True,
\* called directly, by a turn that detected a task, or by dequeuing.
NewTaskInstance ==
    \/ result'.op = "set_active_intent" /\ result'.ret = "True"
    \/ /\ result'.op \in {"process_user_input", "process_message"}
       /\ state_data.current_state \in {"INIT", "GENERAL_CHAT"}
       /\ result'.action \in {"ask_slot", "ready_to_execute"}
    \/ /\ result'.op \in {"complete_action", "advance_state", "process_message"}
       /\ state_data.queued_intents # <<>>
       /\ state_data'.queued_intents = Tail(state_data.queued_intents)

IsConfirmed(st, s) == s \in DOMAIN st.slot_values /\ st.slot_values[s].confirmed

\* C1: a step that does not start a new task instance leaves every confirmed
\* slot confirmed and with the same value.
C1_ConfirmedSlotsImmutable ==
    [][NewTaskInstance
       \/ \A s \in DOMAIN state_data.slot_values :
            state_data.slot_values[s].confirmed =>
              /\ IsConfirmed(state_data', s)
              /\ state_data'.slot_values[s].value = state_data.slot_values[s].value]_vars

\* C1 witness: a normalization was proposed for a slot that is confirmed.
C1_Witness ==
    /\ result.op = "set_pending_normalization"
    /\ IsConfirmed(state_data, result.slot)
    /\ state_data.slot_values[result.slot].normalized_value = result.value

\* C2: fill_slot on a confirmed slot returns False and changes nothing.
C2_FillConfirmedRejected ==
    [][(result'.op = "fill_slot" /\ IsConfirmed(state_data, result'.slot))
          => (result'.ret = "False" /\ state_data' = state_data)]_vars

\* C2 witness: fill_slot returned False for a confirmed slot holding another
\* value than the one offered, with a retry count and a pending proposal in
\* the state.
C2_Witness ==
    /\ result.op = "fill_slot"
    /\ result.ret = "False"
    /\ IsConfirmed(state_data, result.slot)
    /\ state_data.slot_values[result.slot].value # result.value
    /\ state_data.slot_values[result.slot].retry_count > 0
    /\ Truthy(state_data.pending_normalization)

\* C3: set_active_intent during a task returns False and changes only the
\* queue, which gets the name appended unless it is already queued.
C3_BusyIntentQueued ==
    [][(result'.op = "set_active_intent" /\ state_data.current_state \in TaskStates)
          => /\ result'.ret = "False"
             /\ state_data' =
                  [state_data EXCEPT !.queued_intents =
                      IF result'.intent \in Range(state_data.queued_intents)
                      THEN state_data.queued_intents
                      ELSE Append(state_data.queued_intents, result'.intent)]]_vars

\* C3 witness: a second task was queued while the action was executing, with
\* slot records, a retry count and a slot being collected in the state.
C3_Witness ==
    /\ result.op = "set_active_intent"
    /\ result.ret = "False"
    /\ state_data.current_state = "EXECUTING_ACTION"
    /\ Len(state_data.queued_intents) = 2
    /\ state_data.queued_intents[2] = result.intent
    /\ state_data.slot_retry_counts # EmptyDict
    /\ state_data.current_slot_being_collected # NONE

RetryCount(st, s) == DictGet(st.slot_retry_counts, s, 0)

\* C4: increment_retry returns True on the first and second call for a slot
\* and False from the third on, the calls being counted since the task
\* instance started: the counter grows by one per call, no other method
\* changes it, and a new task instance sets it back to zero.
C4_RetryBound ==
    [][/\ result'.op = "increment_retry"
            => result'.ret = Bool(RetryCount(state_data, result'.slot) < 2)
       /\ \A s \in SlotNames :
            RetryCount(state_data', s) =
              IF NewTaskInstance THEN 0
              ELSE IF result'.op = "increment_retry" /\ result'.slot = s
                   THEN RetryCount(state_data, s) + 1
                   ELSE RetryCount(state_data, s)]_vars

\* C4 witness: the fourth call for a slot returned False.
C4_Witness ==
    /\ result.op = "increment_retry"
    /\ result.ret = "False"
    /\ RetryCount(state_data, result.slot) = 4

\* C5: loading the snapshot of the state into a fresh FSM gives the state.
C5_SnapshotRoundTrip ==
    load_state_snapshot(FSMStateData, get_state_snapshot(state_data)) = state_data

\* C5 witness: a state with a queued task, a slot being collected, a pending
\* proposal and a slot record that has a retry count and a candidate.
C5_Witness ==
    /\ state_data.queued_intents # <<>>
    /\ state_data.current_slot_being_collected # NONE
    /\ Truthy(state_data.pending_normalization)
    /\ \E s \in DOMAIN state_data.slot_values :
         /\ state_data.slot_values[s].retry_count > 0
         /\ state_data.slot_values[s].confirmed
         /\ state_data.slot_values[s].needs_confirmation
         /\ state_data.slot_values[s].normalized_value # NONE

IndexOf(seq, x) == CHOOSE i \in 1..Len(seq) : seq[i] = x

IsTurn(r) == r.op \in {"process_user_input", "process_message"}

\* C6: when every utterance answers the slot in question, each ask_slot names
\* a schema slot of the active task that has no record yet, all slots before
\* it are confirmed, and it is the first slot for a new task instance and
\* otherwise the schema successor of the slot asked before.
C6_OrderedSlotRequests ==
    [][result'.action = "ask_slot" =>
         /\ result'.intent = state_data'.active_intent
         /\ result'.slot \in Range(get_slot_names(result'.intent))
         /\ result'.slot \notin DOMAIN state_data'.slot_values
         /\ LET schema == get_slot_names(result'.intent)
                k == IndexOf(schema, result'.slot)
            IN  /\ \A i \in 1..(k - 1) : IsConfirmed(state_data', schema[i])
                /\ IF NewTaskInstance THEN k = 1
                   ELSE /\ k > 1
                        /\ state_data.current_slot_being_collected = schema[k - 1]]_vars

\* C6 witness: the third slot of request_time_off is asked.
C6_Witness ==
    /\ result.action = "ask_slot"
    /\ result.intent = "request_time_off"
    /\ result.slot = "end_date"
    /\ state_data.current_slot_being_collected = "end_date"

\* C7 (as claimed): the turn in which the retry count of the slot being
\* collected goes from 2 to 3 does not yield retry_slot; it yields ask_slot
\* for another, unconfirmed slot, or ready_to_execute when no other slot is
\* missing, and the exhausted slot is not confirmed afterwards.
C7_ExhaustedSlotSkipped ==
    [][\A s \in SlotNames :
         (/\ IsTurn(result')
          /\ state_data.current_state = "COLLECTING_SLOT"
          /\ state_data.current_slot_being_collected = s
          /\ RetryCount(state_data, s) = 2
          /\ RetryCount(state_data', s) = 3)
         => /\ result'.action # "retry_slot"
            /\ \/ /\ result'.action = "ask_slot"
                  /\ result'.slot # s
                  /\ ~IsConfirmed(state_data', result'.slot)
               \/ /\ result'.action = "ready_to_execute"
                  /\ \A t \in Range(get_slot_names(state_data.active_intent)) \ {s} :
                        IsConfirmed(state_data', t)
            /\ ~IsConfirmed(state_data', s)]_vars

\* C8 (as claimed): once a slot's retry count has reached MAX_RETRIES, no
\* later turn of the task instance asks or retries that slot, and no further
\* failed attempt is counted for it.
C8_ExhaustedSlotNeverAskedAgain ==
    [][\A s \in SlotNames :
         (/\ IsTurn(result')
          /\ ~NewTaskInstance
          /\ RetryCount(state_data, s) >= MAX_RETRIES)
         => /\ result'.action \in {"ask_slot", "retry_slot"} => result'.slot # s
            /\ RetryCount(state_data', s) <= MAX_RETRIES]_vars

\* C9 (as claimed): a turn that extracts for a slot a value for which the
\* normalizer proposes a replacement leaves the slot filled and unconfirmed,
\* records the proposal, moves to CONFIRMING_NORMALIZATION and yields
\* confirm_normalization.
C9_AmbiguousValueNotConfirmed ==
    [][\A s \in SlotNames :
         (/\ result'.op = "process_message"
          /\ s \notin DOMAIN state_data.slot_values
          /\ s \in DOMAIN state_data'.slot_values
          /\ normalize_value(s, state_data'.slot_values[s].value, NONE) # NONE)
         => /\ ~state_data'.slot_values[s].confirmed
            /\ Truthy(state_data'.pending_normalization)
            /\ s \in DOMAIN state_data'.pending_normalization.entries
            /\ state_data'.pending_normalization.entries[s] =
                 normalize_value(s, state_data'.slot_values[s].value, NONE)
            /\ state_data'.current_state = "CONFIRMING_NORMALIZATION"
            /\ result'.action = "confirm_normalization"]_vars

\* C10 (as claimed): in CONFIRMING_NORMALIZATION with one pending proposal
\* (s, c) for a slot filled unconfirmed, an affirmative utterance leaves s
\* confirmed with value c and no pending proposal, in READY_TO_EXECUTE when
\* all slots are confirmed and otherwise in COLLECTING_SLOT with an ask_slot
\* for the next missing slot.
C10_AffirmativeConfirmsCandidate ==
    [][\A s \in SlotNames :
         (/\ IsTurn(result')
          /\ result'.utterance \in AffirmativeLexicon
          /\ state_data.current_state = "CONFIRMING_NORMALIZATION"
          /\ Truthy(state_data.pending_normalization)
          /\ DOMAIN state_data.pending_normalization.entries = {s}
          /\ s \in DOMAIN state_data.slot_values
          /\ ~state_data.slot_values[s].confirmed)
         => /\ IsConfirmed(state_data', s)
            /\ state_data'.slot_values[s].value =
                 state_data.pending_normalization.entries[s]
            /\ ~Truthy(state_data'.pending_normalization)
            /\ IF check_all_slots_filled(state_data', state_data'.active_intent)
               THEN state_data'.current_state = "READY_TO_EXECUTE"
               ELSE /\ state_data'.current_state = "COLLECTING_SLOT"
                    /\ result'.action = "ask_slot"
                    /\ result'.slot =
                         get_next_missing_slot(state_data', state_data'.active_intent)]_vars

\* C11 (as claimed): once the phase is TERMINATED no operation changes it,
\* set_active_intent returns False there, and a direct FSM call leaves the
\* whole state as it is.
C11_TerminatedIsSink ==
    [][state_data.current_state = "TERMINATED"
         => /\ state_data'.current_state = "TERMINATED"
            /\ result'.op = "set_active_intent" => result'.ret = "False"
            /\ ~IsTurn(result') => state_data' = state_data]_vars

\* The state in which task intent_name starts with the queue queued.
FreshTask(intent_name, queued) ==
    [current_state |-> "COLLECTING_SLOT",
     active_intent |-> intent_name,
     queued_intents |-> queued,
     slot_values |-> EmptyDict,
     current_slot_being_collected |-> NONE,
     slot_retry_counts |-> EmptyDict,
     pending_normalization |-> NoDict]

\* C12: complete_action with a non-empty queue makes the head of the queue
\* the active task in COLLECTING_SLOT, with no slot records, retry counts,
\* slot being collected or pending normalization, and leaves the rest of the
\* queue in its order.
C12_CompleteActionDequeues ==
    [][(result'.op = "complete_action" /\ state_data.queued_intents # <<>>)
          => state_data' = FreshTask(Head(state_data.queued_intents),
                                     Tail(state_data.queued_intents))]_vars

\* C12 witness: complete_action started a queued task and another task is
\* still queued.
C12_Witness ==
    /\ result.op = "complete_action"
    /\ state_data.current_state = "COLLECTING_SLOT"
    /\ state_data.active_intent # NONE
    /\ state_data.queued_intents # <<>>
    /\ state_data.slot_values = EmptyDict

\* The schema slots of the task without a confirmed record, in schema order.
UnconfirmedSlots(st, intent_name) ==
    SelectSeq(get_slot_names(intent_name), LAMBDA s : ~IsConfirmed(st, s))

\* C13 (as claimed): for the active task get_next_missing_slot is the first
\* schema slot without a confirmed record, and it is None exactly when
\* check_all_slots_filled is true.
C13_NextMissingIsFirstUnconfirmed ==
    state_data.active_intent # NONE =>
      LET intent_name == state_data.active_intent
          unconfirmed == UnconfirmedSlots(state_data, intent_name)
      IN  /\ get_next_missing_slot(state_data, intent_name) =
               (IF unconfirmed = <<>> THEN NONE ELSE unconfirmed[1])
          /\ (get_next_missing_slot(state_data, intent_name) = NONE)
               <=> check_all_slots_filled(state_data, intent_name)

\* The step takes the head of the queue as the next task.
Dequeues ==
    /\ state_data.queued_intents # <<>>
    /\ \/ result'.op = "complete_action"
       \/ result'.op = "advance_state" /\ state_data.current_state = "COMPLETED"

\* C14: set_active_intent outside a task returns True, and a task that
\* becomes active, by set_active_intent or by dequeuing, starts in
\* COLLECTING_SLOT with an empty slot namespace; set_active_intent leaves
\* the queue as it is and dequeuing removes only the head.
C14_TaskStartsClean ==
    [][/\ (result'.op = "set_active_intent" /\ state_data.current_state \notin TaskStates)
            => /\ result'.ret = "True"
               /\ state_data' = FreshTask(result'.intent, state_data.queued_intents)
       /\ Dequeues
            => state_data' = FreshTask(Head(state_data.queued_intents),
                                       Tail(state_data.queued_intents))]_vars

\* C14 witness: set_active_intent started a task while another was queued.
C14_Witness ==
    /\ result.op = "set_active_intent"
    /\ result.ret = "True"
    /\ state_data.active_intent = result.intent
    /\ state_data.queued_intents # <<>>

NoDuplicates(seq) == \A i, j \in 1..Len(seq) : seq[i] = seq[j] => i = j

\* C15: the queue never holds a name twice; a step leaves it as it is,
\* appends a name not yet queued (set_active_intent during a task) or
\* removes its head, which becomes the active task; queuing a name already
\* queued leaves the queue as it is, and complete_action with a non-empty
\* queue activates the head.
C15_QueueFifoNoDuplicates ==
    [][LET queue == state_data.queued_intents
           after == state_data'.queued_intents
       IN  /\ NoDuplicates(after)
           /\ \/ after = queue
              \/ /\ result'.op = "set_active_intent"
                 /\ result'.intent \notin Range(queue)
                 /\ after = Append(queue, result'.intent)
              \/ /\ queue # <<>>
                 /\ after = Tail(queue)
                 /\ state_data'.active_intent = Head(queue)
           /\ (result'.op = "set_active_intent" /\ result'.intent \in Range(queue))
                => after = queue
           /\ (result'.op = "complete_action" /\ queue # <<>>)
                => /\ after = Tail(queue)
                   /\ state_data'.active_intent = Head(queue)]_vars

\* C15 witness: the name at the head of a queue of two was queued again.
C15_Witness ==
    /\ result.op = "set_active_intent"
    /\ result.ret = "False"
    /\ Len(state_data.queued_intents) = 2
    /\ state_data.queued_intents[1] = result.intent

AllConfirmed(st) ==
    /\ st.active_intent # NONE
    /\ \A s \in Range(get_slot_names(st.active_intent)) : IsConfirmed(st, s)

\* The phase the transition table gives for advance_state in state st.
TableTarget(st) ==
    CASE st.current_state \in {"INIT", "READY_TO_EXECUTE", "GENERAL_CHAT", "TERMINATED"} ->
           st.current_state
      [] st.current_state = "COLLECTING_SLOT" ->
           IF AllConfirmed(st) THEN "READY_TO_EXECUTE"
           ELSE IF Truthy(st.pending_normalization) THEN "CONFIRMING_NORMALIZATION"
           ELSE "COLLECTING_SLOT"
      [] st.current_state = "CONFIRMING_NORMALIZATION" ->
           IF AllConfirmed(st) THEN "READY_TO_EXECUTE" ELSE "COLLECTING_SLOT"
      [] st.current_state = "EXECUTING_ACTION" -> "COMPLETED"
      [] st.current_state = "COMPLETED" ->
           IF st.queued_intents # <<>> THEN "COLLECTING_SLOT" ELSE "INIT"

\* C16: the phase after advance_state is the one of the transition table;
\* from COMPLETED the active task becomes the head of the queue, or none
\* when the queue is empty.
C16_AdvanceStateTable ==
    [][result'.op = "advance_state"
         => /\ state_data'.current_state = TableTarget(state_data)
            /\ state_data.current_state = "COMPLETED"
                 => state_data'.active_intent =
                      (IF state_data.queued_intents # <<>>
                       THEN Head(state_data.queued_intents) ELSE NONE)]_vars

\* C16 witness: advance_state moved a task with a pending normalization and
\* an unconfirmed slot to CONFIRMING_NORMALIZATION.
C16_Witness ==
    /\ result.op = "advance_state"
    /\ state_data.current_state = "CONFIRMING_NORMALIZATION"
    /\ Truthy(state_data.pending_normalization)
    /\ ~AllConfirmed(state_data)

\* C17: advance_state from a phase other than COMPLETED changes only the
\* phase.
C17_AdvanceStateChangesPhaseOnly ==
    [][(result'.op = "advance_state" /\ state_data.current_state # "COMPLETED")
          => state_data' =
               [state_data EXCEPT !.current_state = state_data'.current_state]]_vars

\* C17 witness: advance_state moved an executing task to COMPLETED, with slot
\* records, a slot being collected and a queued task in the state.
C17_Witness ==
    /\ result.op = "advance_state"
    /\ state_data.current_state = "COMPLETED"
    /\ state_data.slot_values # EmptyDict
    /\ state_data.current_slot_being_collected # NONE
    /\ state_data.queued_intents # <<>>

\* C18: in READY_TO_EXECUTE an utterance of the execution-confirmation
\* lexicon yields execute_action with the active task and the mapping of the
\* confirmed slots to their values, and leaves the state as it is.
C18_ExecuteActionCarriesSlots ==
    [][(/\ result'.op = "process_user_input"
        /\ state_data.current_state = "READY_TO_EXECUTE"
        /\ is_execution_confirmation(result'.utterance))
          => /\ result'.action = "execute_action"
             /\ result'.intent = state_data.active_intent
             /\ result'.slots =
                  [s \in {n \in DOMAIN state_data.slot_values : IsConfirmed(state_data, n)}
                     |-> state_data.slot_values[s].value]
             /\ state_data' = state_data]_vars

\* C18 witness: execute_action was yielded for file_medical_claim with both
\* of its slots in the metadata, one of them with a proposed candidate.
C18_Witness ==
    /\ result.op = "process_user_input"
    /\ result.action = "execute_action"
    /\ result.intent = "file_medical_claim"
    /\ DOMAIN result.slots = ClaimSlots
    /\ state_data.current_state = "READY_TO_EXECUTE"
    /\ state_data.slot_values["employee_name"].normalized_value # NONE

\* C19 (as claimed): a turn during which a collaborator fails still returns
\* a result, retry_slot or clarify, and never ends with an exception.
C19_CollaboratorFailureDegrades ==
    [][result'.op = "process_user_input" => result'.action # RAISED]_vars

\* C20 (as claimed): at most one turn of the conversation is in flight.
C20_OneTurnInFlight ==
    Cardinality({r \in Requests : in_flight[r] # Idle}) <= 1

\* C21: after a call of process_message that completes, the snapshot last
\* handed to the store is the snapshot of the state the call left, and loading
\* it gives that state back: what execution and completion changed is in it.
C21_CompletedTurnIsPersisted ==
    (result.op = "process_message" /\ result.action # RAISED)
      => /\ saved = save_conversation_state(state_data)
         /\ load_state_snapshot(FSMStateData, saved.entries) = state_data

\* C21 witness: a call executed the action and completed the task, and the
\* saved snapshot has the phase the completion led to.
C21_Witness ==
    /\ result.op = "process_message"
    /\ result.action = "action_completed"
    /\ state_data.current_state = "INIT"
    /\ ~saved.is_none
    /\ saved.entries.current_state = "INIT"

\* C22: in every phase a turn with an empty or whitespace-only utterance
\* yields clarify, calls no collaborator (it ends the same when every
\* collaborator would raise) and leaves the state as it is.
C22_EmptyUtteranceClarifies ==
    [][(result'.op = "process_user_input" /\ result'.utterance \in {"", "  "})
          => /\ result'.action = "clarify"
             /\ ~calls_collaborator(state_data, result'.utterance)
             /\ state_data' = state_data]_vars

\* C22 witness: a whitespace-only utterance was answered with clarify in
\* phase TERMINATED during a task with a confirmed slot.
C22_Witness ==
    /\ result.op = "process_user_input"
    /\ result.utterance = "  "
    /\ result.action = "clarify"
    /\ state_data.current_state = "TERMINATED"
    /\ state_data.active_intent # NONE
    /\ state_data.slot_values # EmptyDict

\* C23: start_action_execution moves the phase from READY_TO_EXECUTE to
\* EXECUTING_ACTION and changes nothing else; from any other phase it changes
\* nothing.
C23_StartActionExecutionGuarded ==
    [][result'.op = "start_action_execution"
         => state_data' =
              (IF state_data.current_state = "READY_TO_EXECUTE"
               THEN [state_data EXCEPT !.current_state = "EXECUTING_ACTION"]
               ELSE state_data)]_vars

\* C23 witness: start_action_execution was called in CONFIRMING_NORMALIZATION
\* and the phase is still that one.
C23_Witness ==
    /\ result.op = "start_action_execution"
    /\ state_data.current_state = "CONFIRMING_NORMALIZATION"
    /\ Truthy(state_data.pending_normalization)

\* C24: from INIT or GENERAL_CHAT a turn in which the intent router detects
\* a task makes that task active in COLLECTING_SLOT with an empty slot
\* namespace and the first slot of its schema as the slot being collected,
\* and yields ask_slot with that slot, the task and the slot's question in
\* the metadata.
C24_DetectedTaskAsksFirstSlot ==
    [][(/\ result'.op = "process_user_input"
        /\ state_data.current_state \in {"INIT", "GENERAL_CHAT"}
        /\ result'.answers.detected_intent # NONE)
          => LET intent_name == result'.answers.detected_intent
                 first_slot == get_slot_names(intent_name)[1]
             IN  /\ state_data' =
                       [FreshTask(intent_name, state_data.queued_intents)
                          EXCEPT !.current_slot_being_collected = first_slot]
                 /\ result'.action = "ask_slot"
                 /\ result'.slot = first_slot
                 /\ result'.intent = intent_name
                 /\ result'.question = get_slot_questions(intent_name)[first_slot]]_vars

\* C24 witness: request_time_off was detected while file_medical_claim was
\* queued, and the turn asked for employee_name.
C24_Witness ==
    /\ result.op = "process_user_input"
    /\ result.answers.detected_intent = "request_time_off"
    /\ state_data.active_intent = "request_time_off"
    /\ state_data.queued_intents = <<"file_medical_claim">>
    /\ result.action = "ask_slot"
    /\ result.slot = "employee_name"
    /\ result.question = "What is your name?"
    /\ state_data.current_state = "COLLECTING_SLOT"
    /\ state_data.current_slot_being_collected = "employee_name"

\* The extractor is asked for slot_name during a collection turn with these
\* answers and finds a value: it is asked for every selected slot, and for
\* the slot in question when no slot is selected or no selected slot has a
\* value.
Extracted(answers, slot_name, current_slot) ==
    /\ slot_name # NONE
    /\ answers.extract[slot_name] # NONE
    /\ \/ slot_name \in answers.selected_slots
       \/ /\ slot_name = current_slot
          /\ \A s \in answers.selected_slots : answers.extract[s] = NONE

OtherPending(st, slot_name) ==
    IF st.pending_normalization.is_none THEN EmptyDict
    ELSE [s \in DOMAIN st.pending_normalization.entries \ {slot_name}
            |-> st.pending_normalization.entries[s]]

OtherRecords(st, slot_name) ==
    [s \in DOMAIN st.slot_values \ {slot_name} |-> st.slot_values[s]]

\* C26 (as claimed): confirm_slot and reject_normalization leave the pending
\* entries and the records of the slots they are not called for as they are;
\* reject_normalization leaves the value and the confirmed flag of its slot
\* as they are; confirm_slot for a slot without record returns False and
\* changes nothing.
C26_ConfirmRejectActOnNamedSlot ==
    [][result'.op \in {"confirm_slot", "reject_normalization"}
         => LET slot_name == result'.slot
            IN  /\ OtherPending(state_data', slot_name) = OtherPending(state_data, slot_name)
                /\ OtherRecords(state_data', slot_name) = OtherRecords(state_data, slot_name)
                /\ (result'.op = "reject_normalization"
                      /\ slot_name \in DOMAIN state_data.slot_values)
                     => /\ state_data'.slot_values[slot_name].value =
                             state_data.slot_values[slot_name].value
                        /\ state_data'.slot_values[slot_name].confirmed =
                             state_data.slot_values[slot_name].confirmed
                /\ (result'.op = "confirm_slot"
                      /\ slot_name \notin DOMAIN state_data.slot_values)
                     => /\ result'.ret = "False"
                        /\ state_data' = state_data]_vars

\* C27: in CONFIRMING_NORMALIZATION a non-empty utterance of neither lexicon
\* leaves the state as it is and yields confirm_normalization, with the slot
\* and the candidate of a pending proposal when there is one.  (The empty
\* utterance is answered with clarify before the phase is looked at.)
C27_UnclearAnswerAsksAgain ==
    [][(/\ result'.op = "process_user_input"
        /\ state_data.current_state = "CONFIRMING_NORMALIZATION"
        /\ Strip(result'.utterance) \notin AffirmativeLexicon \cup NegativeLexicon \cup {""})
          => /\ state_data' = state_data
             /\ result'.action = "confirm_normalization"
             /\ Truthy(state_data.pending_normalization)
                  => /\ result'.slot \in DOMAIN state_data.pending_normalization.entries
                     /\ result'.value =
                          state_data.pending_normalization.entries[result'.slot]]_vars

\* C27 witness: "john smith" was answered with the proposal for
\* incident_date, which is still pending for an unconfirmed slot.
C27_Witness ==
    /\ result.op = "process_user_input"
    /\ result.utterance = "john smith"
    /\ result.action = "confirm_normalization"
    /\ result.slot = "incident_date"
    /\ result.value = "2025-01-13"
    /\ state_data.current_state = "CONFIRMING_NORMALIZATION"
    /\ DOMAIN state_data.pending_normalization.entries = {"incident_date"}
    /\ "incident_date" \in DOMAIN state_data.slot_values
    /\ state_data.slot_values["incident_date"].needs_confirmation

\* C28: in CONFIRMING_NORMALIZATION a negative utterance clears the
\* candidate and the awaiting-confirmation flag of every slot named in the
\* pending normalization and changes nothing else in the slot records; the
\* pending normalization is empty afterwards and the phase is
\* READY_TO_EXECUTE if all slots are confirmed, COLLECTING_SLOT otherwise.
C28_NegativeAnswerRejectsAll ==
    [][(/\ result'.op = "process_user_input"
        /\ state_data.current_state = "CONFIRMING_NORMALIZATION"
        /\ Strip(result'.utterance) \in NegativeLexicon)
          => LET pending == IF Truthy(state_data.pending_normalization)
                            THEN DOMAIN state_data.pending_normalization.entries
                            ELSE {}
             IN  /\ state_data'.slot_values =
                       [s \in DOMAIN state_data.slot_values |->
                          IF s \in pending
                          THEN [state_data.slot_values[s]
                                  EXCEPT !.normalized_value = NONE,
                                         !.needs_confirmation = FALSE]
                          ELSE state_data.slot_values[s]]
                 /\ ~Truthy(state_data'.pending_normalization)
                 /\ state_data'.current_state =
                       (IF AllConfirmed(state_data') THEN "READY_TO_EXECUTE"
                        ELSE "COLLECTING_SLOT")]_vars

\* C28 witness: after "no" both slots of file_medical_claim have their
\* records without candidate, none of them confirmed, nothing is pending and
\* the phase is COLLECTING_SLOT.
C28_Witness ==
    /\ result.op = "process_user_input"
    /\ result.utterance = "no"
    /\ state_data.current_state = "COLLECTING_SLOT"
    /\ ~Truthy(state_data.pending_normalization)
    /\ DOMAIN state_data.slot_values = ClaimSlots
    /\ \A s \in ClaimSlots :
          /\ ~state_data.slot_values[s].confirmed
          /\ state_data.slot_values[s].normalized_value = NONE
          /\ ~state_data.slot_values[s].needs_confirmation

\* C29: when the selector returns several slots, every one of them for which
\* the extractor has a value is confirmed with that value after the turn,
\* every one for which it has none is without record, and the record of a
\* slot that was confirmed before the turn is as it was.
C29_SeveralSlotsFilledInOneTurn ==
    [][(/\ result'.op = "process_user_input"
        /\ Cardinality(result'.answers.selected_slots) >= 2)
          => /\ \A s \in result'.answers.selected_slots :
                   IF result'.answers.extract[s] # NONE
                   THEN /\ IsConfirmed(state_data', s)
                        /\ state_data'.slot_values[s].value = result'.answers.extract[s]
                   ELSE s \notin DOMAIN state_data'.slot_values
             /\ \A s \in DOMAIN state_data.slot_values :
                   IsConfirmed(state_data, s)
                     => /\ s \in DOMAIN state_data'.slot_values
                        /\ state_data'.slot_values[s] = state_data.slot_values[s]]_vars

\* C29 witness: with employee_name of request_time_off confirmed as
\* "john smith", the selector returned start_date and end_date, the extractor
\* had a value for start_date only, and the turn asked for end_date.
C29_Witness ==
    /\ result.op = "process_user_input"
    /\ result.answers.selected_slots = {"start_date", "end_date"}
    /\ result.answers.extract["start_date"] = "next monday"
    /\ result.answers.extract["end_date"] = NONE
    /\ state_data.active_intent = "request_time_off"
    /\ DOMAIN state_data.slot_values = {"employee_name", "start_date"}
    /\ state_data.slot_values["employee_name"].value = "john smith"
    /\ IsConfirmed(state_data, "start_date")
    /\ result.action = "ask_slot"
    /\ result.slot = "end_date"

\* The phase in which process_message runs the side effect when the turn
\* with user_message in state st yields execute_action (no collaborator of
\* the dialogue manager is asked in such a turn).
ExecutionPhase(st, user_message) ==
    execution_state(process_user_input(st, user_message, NONE, {},
                                       [s \in SlotNames |-> NONE])).current_state

\* C30 (as claimed): when a turn of process_message yields execute_action,
\* the side effect runs in phase EXECUTING_ACTION, from which complete_action
\* enters COMPLETED.
C30_ExecutionBetweenStartAndComplete ==
    [][(result'.op = "process_message" /\ result'.action = "action_completed")
          => ExecutionPhase(state_data, result'.utterance) = "EXECUTING_ACTION"]_vars

\* C31: when the execution reports failure, process_message leaves the whole
\* state as it was in READY_TO_EXECUTE: phase, active task, slot records and
\* queue.
C31_FailedExecutionKeepsTask ==
    [][(/\ result'.op = "process_message"
        /\ result'.action = "action_completed"
        /\ result'.execution_result = "False")
          => /\ state_data.current_state = "READY_TO_EXECUTE"
             /\ state_data' = state_data]_vars

\* C31 witness: an execution failed while a task was queued; the task is
\* still ready to execute with its slots confirmed and the queue as it was.
C31_Witness ==
    /\ result.op = "process_message"
    /\ result.action = "action_completed"
    /\ result.execution_result = "False"
    /\ state_data.current_state = "READY_TO_EXECUTE"
    /\ AllConfirmed(state_data)
    /\ state_data.queued_intents # <<>>

\* C32: in every state reached through the FSM's operations and the turns,
\* a task is active exactly in the four task phases, and the phase is never
\* COMPLETED between two calls.
C32_ActiveIntentExactlyInTaskPhases ==
    /\ (state_data.active_intent # NONE) <=> (state_data.current_state \in TaskStates)
    /\ state_data.current_state # "COMPLETED"

\* C33: in READY_TO_EXECUTE and EXECUTING_ACTION every slot of the active
\* task's schema has a confirmed record, and a result that tells to execute
\* carries a value for each of them.
C33_ReadyMeansAllConfirmed ==
    /\ state_data.current_state \in {"READY_TO_EXECUTE", "EXECUTING_ACTION"}
          => AllConfirmed(state_data)
    /\ (\/ result.action = "execute_action"
        \/ result.op = "execute_action" /\ result.ret = "True")
          => /\ result.intent \in Intents
             /\ Range(get_slot_names(result.intent)) \subseteq DOMAIN result.slots

\* C33 witness: execute_action returned the three confirmed slots of
\* request_time_off and the phase is EXECUTING_ACTION.
C33_Witness ==
    /\ result.op = "execute_action"
    /\ result.ret = "True"
    /\ result.intent = "request_time_off"
    /\ DOMAIN result.slots = {"employee_name", "start_date", "end_date"}
    /\ state_data.current_state = "EXECUTING_ACTION"
    /\ AllConfirmed(state_data)

\* C34: a turn of process_user_input that returns ready_to_execute leaves
\* the phase READY_TO_EXECUTE with every slot of the active task confirmed.
C34_ReadyToExecuteMeansReady ==
    (result.op = "process_user_input" /\ result.action = "ready_to_execute")
      => /\ state_data.current_state = "READY_TO_EXECUTE"
         /\ state_data.active_intent # NONE
         /\ check_all_slots_filled(state_data, state_data.active_intent)

\* C35: a turn in which the user names a task while another task is in
\* progress queues that task and yields intent_queued with its name.
C35_TaskNamedDuringTaskIsQueued ==
    [][(/\ state_data.current_state \in TaskStates
        /\ result'.op = "process_user_input"
        /\ result'.utterance \in Intents)
          => /\ result'.action = "intent_queued"
             /\ result'.intent = result'.utterance
             /\ \E i \in 1..Len(state_data'.queued_intents) :
                   state_data'.queued_intents[i] = result'.utterance]_vars

\* No turn of a conversation yields intent_queued or leaves a task queued.
NeverQueuedByTurns ==
    /\ result.action # "intent_queued"
    /\ state_data.queued_intents = <<>>

\* The schema slots of the active task that have a confirmed record.
ConfirmedSlots(st) ==
    IF st.active_intent = NONE THEN {}
    ELSE {s \in Range(get_slot_names(st.active_intent)) : IsConfirmed(st, s)}

\* C36: with a cooperative user every collection turn confirms at least one
\* more slot of the same task, whatever the selector returns; the turn that
\* confirms the last one yields ready_to_execute in READY_TO_EXECUTE and any
\* other asks for a slot that is not confirmed, so that a task with n slots
\* is ready after at most n turns; and a task being collected does get ready.
C36_CooperativeUserReachesReady ==
    /\ [][(/\ state_data.current_state = "COLLECTING_SLOT"
            /\ result'.op = "process_user_input")
              => /\ state_data'.active_intent = state_data.active_intent
                 /\ ConfirmedSlots(state_data) \subseteq ConfirmedSlots(state_data')
                 /\ ConfirmedSlots(state_data) # ConfirmedSlots(state_data')
                 /\ IF AllConfirmed(state_data')
                    THEN /\ state_data'.current_state = "READY_TO_EXECUTE"
                         /\ result'.action = "ready_to_execute"
                    ELSE /\ state_data'.current_state = "COLLECTING_SLOT"
                         /\ result'.action = "ask_slot"
                         /\ result'.slot \notin ConfirmedSlots(state_data')
                         /\ state_data'.current_slot_being_collected = result'.slot]_vars
    /\ (state_data.current_state = "COLLECTING_SLOT")
          ~> (state_data.current_state = "READY_TO_EXECUTE")

\* C36 witness: request_time_off is ready after turns in which the selector
\* signalled slots; the three slots are confirmed.
C36_Witness ==
    /\ result.op = "process_user_input"
    /\ result.action = "ready_to_execute"
    /\ state_data.current_state = "READY_TO_EXECUTE"
    /\ state_data.active_intent = "request_time_off"
    /\ Cardinality(ConfirmedSlots(state_data)) = 3
    /\ state_data.slot_retry_counts = EmptyDict

\* The slots with a pending proposal whose record is not confirmed.
PendingUnconfirmed(st) ==
    IF Truthy(st.pending_normalization)
    THEN {s \in DOMAIN st.pending_normalization.entries :
            s \in DOMAIN st.slot_values /\ ~st.slot_values[s].confirmed}
    ELSE {}

\* C37: the turn in which the user rejects the proposal for a slot that was
\* filled unconfirmed does not yield ready_to_execute: the slot has to be
\* asked for again first.
C37_RejectedSlotIsAskedAgain ==
    [][(/\ state_data.current_state = "CONFIRMING_NORMALIZATION"
        /\ PendingUnconfirmed(state_data) # {}
        /\ result'.op = "process_user_input"
        /\ Strip(result'.utterance) \in NegativeLexicon)
          => result'.action # "ready_to_execute"]_vars

\* C38: after complete_action() with an empty queue nothing of the finished
\* task is left: no slot record, retry counter, slot in question or pending
\* proposal, and get_filled_slots reports nothing.
C38_CompletedTaskLeavesNothing ==
    [][(/\ result'.op = "complete_action"
        /\ state_data.queued_intents = <<>>)
          => /\ state_data'.current_state = "INIT"
             /\ state_data'.active_intent = NONE
             /\ DOMAIN state_data'.slot_values = {}
             /\ DOMAIN state_data'.slot_retry_counts = {}
             /\ state_data'.current_slot_being_collected = NONE
             /\ ~Truthy(state_data'.pending_normalization)
             /\ DOMAIN get_filled_slots(state_data') = {}]_vars

\* C39: a snapshot a caller holds is changed by no FSM method other than
\* the one that returns it: neither after get_state_snapshot() nor after
\* load_state_snapshot(blob).
C39_SnapshotsAreIsolated ==
    [][(blob.held /\ result'.op # "get_state_snapshot")
          => blob'.snapshot = blob.snapshot]_vars

\* The part of it about get_state_snapshot(): a snapshot that was not
\* loaded shares nothing with the state and no method changes it.
SnapshotIsACopy ==
    [][(blob.held /\ blob.shared = {} /\ result'.op # "get_state_snapshot")
          => blob'.snapshot = blob.snapshot]_vars

\* C40: for the session at most one agent is constructed between resets,
\* and every chat request is processed by the agent registered for the
\* session.
C40_OneAgentPerSession ==
    /\ active_agents.created <= 1
    /\ \A r \in Requests :
         chat_requests[r].pc = "process_message"
           => chat_requests[r].agent = active_agents.entry

====
